---- MODULE Spec2Model ----
(***************************************************************************)
(* The Signal Router of src/managers/services/routing_manager.py as a      *)
(* state machine: RoutingManager.route with its per-conversation state,    *)
(* the RoutingAggregator and the FallbackRouter; then the Chunker of       *)
(* src/managers/chunker.py, the Symbol Graph Extractor of                  *)
(* src/managers/symbol.py and the Vector Retriever of                      *)
(* src/managers/rag_query.py, each with a specification of its own.        *)
(* SpecDirect calls the aggregator, the action plan and the fallback       *)
(* router on their own; SpecRun is a run of turns of one conversation.     *)
(*                                                                         *)
(* Conventions.                                                            *)
(*  - A user text is a sequence of one-character strings, so that the      *)
(*    substring tests, lower(), strip() and the regular expressions of the *)
(*    code are computed character by character.  A Hangul syllable is one  *)
(*    character, written "uXXXX" after its code point.                     *)
(*  - A Python value that may be None or of an unexpected type is a record *)
(*    [k, v]: k = "none" for None or a missing key, "str" for a string,    *)
(*    "int" for an integer.                                                *)
(*  - Confidences are integers in thousandths (0.95 is 950); similarities  *)
(*    are integers in millionths (0.65 is 650000); an optional number is a *)
(*    record [k, v] with k = "none" or "num".                              *)
(*  - asyncio runs one coroutine at a time and switches only where a       *)
(*    coroutine awaits the text-completion collaborator: an action is the  *)
(*    code between two such suspension points.                             *)
(***************************************************************************)
EXTENDS Integers, Sequences, FiniteSets, TLC

VARIABLES routing_state, turn, started, direct, chunker, extractor, retriever

vars == <<routing_state, turn, started, direct, chunker, extractor, retriever>>

\* the router's variables, and those of the ingestion and retrieval components
routerVars == <<routing_state, turn, started, direct>>

others == <<chunker, extractor, retriever>>

\* a component that is not running in the specification at hand
Idle == [pc |-> "idle"]

----------------------------------------------------------------------------
(* Python values *)

PNone == [k |-> "none", v |-> ""]

PStr(s) == [k |-> "str", v |-> s]

PInt(s) == [k |-> "int", v |-> s]

\* bool(value) of Python for None, strings and integers
Truthy(p) ==
  \/ p.k = "str" /\ p.v # ""
  \/ p.k = "int" /\ p.v # "0"

NNone == [k |-> "none", v |-> 0]

NNum(n) == [k |-> "num", v |-> n]

Min(S) == CHOOSE x \in S : \A y \in S : x <= y

Max(S) == CHOOSE x \in S : \A y \in S : x >= y

\* the element of a one-element set; The({e(x) : x \in {v}}) computes v once
\* and uses its value wherever e names x
The(S) == CHOOSE x \in S : TRUE

Range(s) == {s[i] : i \in 1..Len(s)}

\* a sequence given as a function, with every element computed
AsTuple(f) == SubSeq(f, 1, Len(f))

\* the elements of a set of integers in increasing order
Sorted(S) ==
  AsTuple([n \in 1..Cardinality(S) |->
             CHOOSE x \in S : Cardinality({y \in S : y < x}) = n - 1])

----------------------------------------------------------------------------
(* Strings as character sequences *)

UpperChars ==
  <<"A", "B", "C", "D", "E", "F", "G", "H", "I", "J", "K", "L", "M",
    "N", "O", "P", "Q", "R", "S", "T", "U", "V", "W", "X", "Y", "Z">>

LowerChars ==
  <<"a", "b", "c", "d", "e", "f", "g", "h", "i", "j", "k", "l", "m",
    "n", "o", "p", "q", "r", "s", "t", "u", "v", "w", "x", "y", "z">>

DigitChars == {"0", "1", "2", "3", "4", "5", "6", "7", "8", "9"}

\* the characters \s matches
SpaceChars == {" ", "\n", "\t", "\r"}

IsUpper(c) == \E i \in 1..Len(UpperChars) : UpperChars[i] = c

IsLower(c) == \E i \in 1..Len(LowerChars) : LowerChars[i] = c

LowerChar(c) ==
  IF IsUpper(c)
    THEN LowerChars[CHOOSE i \in 1..Len(UpperChars) : UpperChars[i] = c]
    ELSE c

\* str.lower()
LowerText(t) == AsTuple([i \in 1..Len(t) |-> LowerChar(t[i])])

\* t[i..j-1] matches kw at offset i (0-based)
MatchesAt(kw, t, i) ==
  /\ i + Len(kw) <= Len(t)
  /\ \A j \in 1..Len(kw) : t[i + j] = kw[j]

\* kw in t
Contains(kw, t) == \E i \in 0..Len(t) : MatchesAt(kw, t, i)

\* how many characters of S follow each other from position i (1-based)
RunLen(t, i, S) ==
  Min({j \in i..(Len(t) + 1) : j > Len(t) \/ t[j] \notin S}) - i

Strip(t) ==
  The({IF keep = {} THEN <<>> ELSE SubSeq(t, Min(keep), Max(keep)) :
         keep \in {{i \in 1..Len(t) : t[i] \notin SpaceChars}}})

\* the starts of the matches a left-to-right regular expression scan finds,
\* when lens[i] is the length of the match that starts at i (0 for none):
\* the leftmost match, then the leftmost one after its end, and so on
ScanStarts(lens) ==
  LET From[p \in 1..(Len(lens) + 1)] ==
        The({IF later = {}
               THEN {}
               ELSE {Min(later)} \cup From[Min(later) + lens[Min(later)]] :
             later \in {{i \in p..Len(lens) : lens[i] > 0}}})
  IN From[1]

\* re.sub of the matches of lengths lens by r, a string of at most one
\* character: a match keeps its first position for r, the rest is dropped
Substitute(t, lens, r) ==
  The({AsTuple([n \in 1..Len(kept) |->
                  IF kept[n] \in starts THEN r[1] ELSE t[kept[n]]]) :
       <<starts, kept>> \in
         {<<s, Sorted({j \in 1..Len(t) :
                        /\ j \in s => r # <<>>
                        /\ ~\E i \in s : i < j /\ j < i + lens[i]})>> :
            s \in {ScanStarts(lens)}}})

\* re.split at the matches of lengths lens: the pieces between the matches
Split(t, lens) ==
  The({AsTuple([n \in 1..(Len(starts) + 1) |->
                  SubSeq(t,
                         IF n = 1 THEN 1
                           ELSE starts[n - 1] + lens[starts[n - 1]],
                         IF n = Len(starts) + 1 THEN Len(t)
                           ELSE starts[n] - 1)]) :
       starts \in {Sorted(ScanStarts(lens))}})

----------------------------------------------------------------------------
(* Keyword tables *)

\* routing_manager.py:93-99, in dictionary order
EXPLICIT_SOURCE_SIGNALS ==
  <<
   [label |-> "filesystem",
    keywords |-> << <<"f", "i", "l", "e", "s", "y", "s", "t", "e", "m">>,
                  <<"l", "o", "c", "a", "l", " ", "f", "i", "l", "e">>,
                  <<"uD30C", "uC77C", "uC2DC", "uC2A4", "uD15C">>,
                  <<"w", "o", "r", "k", "s", "p", "a", "c", "e">>,
                  <<"/", "a", "p", "p">> >>],
   [label |-> "postgres",
    keywords |-> << <<"p", "o", "s", "t", "g", "r", "e", "s">>,
                  <<"d", "a", "t", "a", "b", "a", "s", "e">>,
                  <<"d", "b">>,
                  <<"s", "q", "l">> >>],
   [label |-> "repo_chunks",
    keywords |-> << <<"r", "e", "p", "o">>,
                  <<"uCF54", "uB4DC", "uBCA0", "uC774", "uC2A4">>,
                  <<"c", "o", "d", "e", "b", "a", "s", "e">> >>],
   [label |-> "external_web",
    keywords |-> << <<"e", "x", "t", "e", "r", "n", "a", "l", "_", "w", "e", "b">>,
                  <<"w", "e", "b">>,
                  <<"i", "n", "t", "e", "r", "n", "e", "t">>,
                  <<"uAC80", "uC0C9">> >>],
   [label |-> "direct_answer",
    keywords |-> << <<"d", "i", "r", "e", "c", "t">>,
                  <<"c", "h", "a", "t">>,
                  <<"g", "e", "n", "e", "r", "a", "l">> >>] >>

\* routing_manager.py:104-118
READ_KEYWORDS ==
  <<
  <<"uC870", "uD68C">>,
  <<"uC77D", "uC5B4">>,
  <<"uC5F4", "uC5B4">>,
  <<"uB0B4", "uC6A9">>,
  <<"uBCF4", "uC5EC", "uC918">>,
  <<"uD655", "uC778">>,
  <<"uC0B4", "uD3B4">>,
  <<"i", "n", "s", "p", "e", "c", "t">>,
  <<"s", "h", "o", "w">>,
  <<"d", "i", "s", "p", "l", "a", "y">>,
  <<"l", "i", "s", "t">>,
  <<"uC5B4", "uB514">>,
  <<"uBB34", "uC5C7">> >>

\* routing_manager.py:119-144
MODIFY_KEYWORDS ==
  <<
  <<"uC218", "uC815">>,
  <<"uBCC0", "uACBD">>,
  <<"uBC14", "uAFD4">>,
  <<"uBC14", "uAFB8">>,
  <<"uBC14", "uB00C">>,
  <<"uAD50", "uCCB4">>,
  <<"uB36E", "uC5B4">>,
  <<"uCD94", "uAC00">>,
  <<"uC0AD", "uC81C">>,
  <<"uC801", "uC6A9">>,
  <<"uC5C5", "uB370", "uC774", "uD2B8">>,
  <<"uAC31", "uC2E0">>,
  <<"r", "e", "f", "a", "c", "t", "o", "r">>,
  <<"r", "e", "p", "l", "a", "c", "e">>,
  <<"u", "p", "d", "a", "t", "e">>,
  <<"m", "o", "d", "i", "f", "y">>,
  <<"e", "d", "i", "t">>,
  <<"p", "a", "t", "c", "h">>,
  <<"f", "i", "x">>,
  <<"c", "o", "n", "v", "e", "r", "t">>,
  <<"c", "o", "n", "v", "e", "r", "s", "i", "o", "n">>,
  <<"uBCC0", "uD658">>,
  <<"uC62E", "uACA8">>,
  <<"uC774", "uC2DD">> >>

\* routing_manager.py:146-152, in dictionary order
EXPLICIT_INTENT_SIGNALS ==
  <<
   [label |-> "lookup",
    keywords |-> << <<"l", "o", "o", "k", "u", "p">>,
                  <<"uCC3E", "uC544">>,
                  <<"s", "e", "a", "r", "c", "h">> >>],
   [label |-> "read",
    keywords |-> << <<"r", "e", "a", "d">>,
                  <<"uC5F4", "uC5B4">>,
                  <<"uB0B4", "uC6A9">> >>],
   [label |-> "summarize",
    keywords |-> << <<"s", "u", "m", "m", "a", "r", "i", "z", "e">>,
                  <<"uC694", "uC57D">> >>],
   [label |-> "explain",
    keywords |-> << <<"e", "x", "p", "l", "a", "i", "n">>,
                  <<"uC124", "uBA85">> >>],
   [label |-> "schema_view",
    keywords |-> << <<"s", "c", "h", "e", "m", "a">>,
                  <<"uCEEC", "uB7FC">> >>] >>

\* routing_manager.py:417
CONNECTIVES ==
  <<
  <<"uADF8", "uB7EC", "uBA74">>,
  <<"uADF8", "uB7FC">>,
  <<"uADF8", "uB9AC", "uACE0">>,
  <<"uADF8", "uB7F0", "uB370">> >>

\* the Hangul syllables of the keyword tables and of the texts below
HangulChars ==
  {
    "uAC00", "uAC31", "uAC80", "uACA8", "uACBD", "uACE0", "uAD50", "uADF8",
    "uAFB8", "uAFD4", "uB00C", "uB0B4", "uB36E", "uB370", "uB4DC", "uB514",
    "uB7EC", "uB7F0", "uB7FC", "uB984", "uB9AC", "uBA74", "uBA85", "uBB34",
    "uBC14", "uBCA0", "uBCC0", "uBCF4", "uC0AD", "uC0B4", "uC0C9", "uC11C",
    "uC124", "uC218", "uC2A4", "uC2DC", "uC2DD", "uC2E0", "uC544", "uC57D",
    "uC5B4", "uC5C5", "uC5C7", "uC5EC", "uC5F4", "uC62E", "uC694", "uC6A9",
    "uC774", "uC778", "uC77C", "uC77D", "uC801", "uC815", "uC81C", "uC870",
    "uC918", "uCC3E", "uCCB4", "uCD94", "uCEEC", "uCF54", "uD15C", "uD2B8",
    "uD30C", "uD3B4", "uD568", "uD655", "uD658", "uD68C" }

----------------------------------------------------------------------------
(* User texts *)

\* "search the database for users"
TxtDatabase ==
  <<"s", "e", "a", "r", "c", "h", " ", "t", "h", "e", " ", "d", "a", "t", "a", "b", "a", "s", "e", " ", "f", "o", "r", " ", "u", "s", "e", "r", "s">>

\* "open this file and rename the function"
TxtRename ==
  <<"o", "p", "e", "n", " ", "t", "h", "i", "s", " ", "f", "i", "l", "e", " ", "a", "n", "d", " ", "r", "e", "n", "a", "m", "e", " ", "t", "h", "e", " ", "f", "u", "n", "c", "t", "i", "o", "n">>

\* ""
TxtEmpty ==
  <<>>

\* " "
TxtBlank ==
  <<" ">>

\* "Show /app/main.py"
TxtAppFile ==
  <<"S", "h", "o", "w", " ", "/", "a", "p", "p", "/", "m", "a", "i", "n", ".", "p", "y">>

\* "DATABASE in the workspace"
TxtBoth ==
  <<"D", "A", "T", "A", "B", "A", "S", "E", " ", "i", "n", " ", "t", "h", "e", " ", "w", "o", "r", "k", "s", "p", "a", "c", "e">>

\* "explain it"
TxtExplain ==
  <<"e", "x", "p", "l", "a", "i", "n", " ", "i", "t">>

\* "uC774  uD30C uC77C  uC5F4 uC5B4 uC11C  uD568 uC218  uC774 uB984  uBC14 uAFD4 uC918 "
TxtKoRename ==
  <<"uC774", " ", "uD30C", "uC77C", " ", "uC5F4", "uC5B4", "uC11C", " ", "uD568", "uC218", " ", "uC774", "uB984", " ", "uBC14", "uAFD4", "uC918">>

----------------------------------------------------------------------------
(* The action plan: RoutingManager._build_action_plan *)

\* the characters \w matches
IsWordChar(c) ==
  \/ IsUpper(c)
  \/ IsLower(c)
  \/ c \in DigitChars
  \/ c = "_"
  \/ c \in HangulChars

\* lowered.replace("->", " ")
ReplaceArrow(t) ==
  The({Substitute(t, lens, <<" ">>) :
       lens \in {AsTuple([i \in 1..Len(t) |->
                    IF i < Len(t) /\ t[i] = "-" /\ t[i + 1] = ">" THEN 2 ELSE 0])}})

\* length of the match of ENUMERATION_PATTERN \s*\d+\)\s* at position i, 0 if none
EnumMatchLen(t, i) ==
  The({IF d >= 1 /\ i + s + d <= Len(t) /\ t[i + s + d] = ")"
         THEN s + d + 1 + RunLen(t, i + s + d + 1, SpaceChars)
         ELSE 0 :
       <<s, d>> \in {<<n, RunLen(t, i + n, DigitChars)>> :
                       n \in {RunLen(t, i, SpaceChars)}}})

\* ENUMERATION_PATTERN.sub(" ", t)
EnumSub(t) ==
  The({Substitute(t, lens, <<" ">>) :
       lens \in {AsTuple([i \in 1..Len(t) |-> EnumMatchLen(t, i)])}})

\* re.sub(r"\s+", " ", t)
CollapseSpaces(t) ==
  The({Substitute(t, lens, <<" ">>) :
       lens \in {AsTuple([i \in 1..Len(t) |->
                    IF t[i] \in SpaceChars THEN RunLen(t, i, SpaceChars) ELSE 0])}})

_normalize_action_text(text) ==
  IF text = <<>>
    THEN <<>>
    ELSE The({Strip(collapsed) :
                collapsed \in {CollapseSpaces(plain) :
                  plain \in {EnumSub(spaced) :
                    spaced \in {ReplaceArrow(lowered) :
                      lowered \in {LowerText(text)}}}}})

\* CLAUSE_SPLIT_PATTERN.split(t): cut at every run of newlines and at every . ? !
SplitClauses(t) ==
  The({Split(t, lens) :
       lens \in {AsTuple([i \in 1..Len(t) |->
                    IF t[i] = "\n"
                      THEN RunLen(t, i, {"\n"})
                      ELSE IF t[i] \in {".", "?", "!"} THEN 1 ELSE 0])}})

\* \b at the gap before position i (1-based; i = Len(t) + 1 is the end)
WordBoundary(t, i) ==
  (i > 1 /\ IsWordChar(t[i - 1])) # (i <= Len(t) /\ IsWordChar(t[i]))

\* length of the match of \b(c1|c2|c3|c4)\b at position i, 0 if none:
\* the first alternative, in order, that is followed by a boundary
ConnectiveMatchLen(t, i) ==
  The({IF WordBoundary(t, i) /\ ok # {} THEN Len(CONNECTIVES[Min(ok)]) ELSE 0 :
       ok \in {{n \in 1..Len(CONNECTIVES) :
                  /\ MatchesAt(CONNECTIVES[n], t, i - 1)
                  /\ WordBoundary(t, i + Len(CONNECTIVES[n]))}}})

\* re.sub(r"\b(...)\b", "", t)
DropConnectives(t) ==
  The({Substitute(t, lens, <<>>) :
       lens \in {AsTuple([i \in 1..Len(t) |-> ConnectiveMatchLen(t, i)])}})

\* one segment in the loop of _split_action_clauses: the clause, <<>> if dropped
CleanSegment(segment) ==
  The({IF seg = <<>> THEN <<>> ELSE Strip(dropped) :
       <<seg, dropped>> \in {<<s, DropConnectives(s)>> : s \in {Strip(segment)}}})

_split_action_clauses(text) ==
  IF text = <<>>
    THEN <<>>
    ELSE The({IF clauses = <<>> THEN <<text>> ELSE clauses :
              clauses \in {SelectSeq([n \in 1..Len(raw) |-> CleanSegment(raw[n])],
                                     LAMBDA seg : seg # <<>>) :
                             raw \in {SplitClauses(text)}}})

\* the keywords of the table that occur in the text, in table order
_match_keywords(text, keywords) ==
  SelectSeq(keywords, LAMBDA kw : kw # <<>> /\ Contains(kw, text))

\* a faulty analysis in which a read keyword takes precedence
AnalyzeClauses_ReadFirst(clauses) ==
  LET read_hits == UNION {Range(_match_keywords(clause, READ_KEYWORDS)) :
                            clause \in Range(clauses)}
      modify_hits == UNION {Range(_match_keywords(clause, MODIFY_KEYWORDS)) :
                              clause \in Range(clauses)}
  IN [mode |-> IF read_hits # {}
                 THEN "read_only"
                 ELSE IF modify_hits # {} THEN "read_then_modify" ELSE "unknown",
      read |-> read_hits,
      modify |-> modify_hits]

\* the loop of _analyze_action_signals over the clauses, and the mode
AnalyzeClauses(clauses) ==
  The({[mode |-> IF modify_hits # {}
                   THEN "read_then_modify"
                   ELSE IF read_hits # {} THEN "read_only" ELSE "unknown",
        read |-> read_hits,
        modify |-> modify_hits] :
       <<read_hits, modify_hits>> \in
         {<<UNION {Range(_match_keywords(clause, READ_KEYWORDS)) :
                     clause \in Range(clauses)},
            UNION {Range(_match_keywords(clause, MODIFY_KEYWORDS)) :
                     clause \in Range(clauses)}>>}})

_analyze_action_signals(user_text) ==
  The({AnalyzeClauses(clauses) :
       clauses \in {_split_action_clauses(normalized) :
                      normalized \in {_normalize_action_text(user_text)}}})

_build_action_plan(user_text) ==
  The({[mode |-> analysis.mode,
        needs_llm_transformation |-> (analysis.mode = "read_then_modify")] :
       analysis \in {_analyze_action_signals(user_text)}})

----------------------------------------------------------------------------
(* Module constants of routing_manager.py *)

SIMILARITY_THRESHOLD == 650000

\* confidence_gate, the default of RoutingManager.__init__
ConfidenceGate == 400

\* the weights of RoutingAggregator.__init__, in tenths
SourceWeight == 4

IntentWeight == 4

SelfWeight == 2

\* a dictionary a router step returns or a classifier sends: the keys the
\* router reads, a missing key being None; empty is the dictionary {}
MkDict(source, intent, name, confidence, reason) ==
  [k |-> "dict", empty |-> FALSE, source |-> source, intent |-> intent,
   name |-> name, confidence |-> confidence, reason |-> reason]

EmptyDict ==
  [k |-> "dict", empty |-> TRUE, source |-> PNone, intent |-> PNone,
   name |-> PNone, confidence |-> NNone, reason |-> ""]

\* None where a dictionary is expected
NoDict ==
  [k |-> "none", empty |-> TRUE, source |-> PNone, intent |-> PNone,
   name |-> PNone, confidence |-> NNone, reason |-> ""]

\* bool(d) of an optional dictionary
DictTruthy(d) == d.k = "dict" /\ ~d.empty

DEFAULT_SOURCE == MkDict(PStr("repo_chunks"), PNone, PNone, NNum(300), "")

DEFAULT_INTENT == MkDict(PNone, PStr("lookup"), PNone, NNum(300), "")

DEFAULT_SAFETY ==
  [override_source |-> PStr("none"), override_intent |-> PStr("none"), reason |-> ""]

----------------------------------------------------------------------------
(* The text-completion collaborator's replies and _safe_json *)

\* The JSON objects a reply may carry.  A confidence is a number, a string
\* holding a number ("numstr"), any other string ("str") or missing.
JsonBodies ==
  [ok |->
     MkDict(PStr("filesystem"), PStr("read"), PStr("read_file"), NNum(500), ""),
   low |->
     MkDict(PStr("Postgres"), PStr("explain"), PStr(" None "),
            [k |-> "numstr", v |-> 100], ""),
   bare |->
     MkDict(PNone, PStr("schema_view"), PStr("drop_table"), NNone, ""),
   types |->
     MkDict(PInt("5"), PInt("5"), PInt("5"), [k |-> "str", v |-> 0], ""),
   none |->
     MkDict(PStr("none"), PStr("none"), PStr("none"), NNum(900), "")]

BodyIds == DOMAIN JsonBodies

\* A reply is a sequence of tokens: "txt" is prose without braces, "{" and
\* "}" are braces, a body id is the members of one JSON object.
Replies ==
  {<<>>,
   <<"txt">>,
   <<"}", "txt", "{">>,
   <<"{", "}">>,
   <<"{", "ok", "}", "{", "ok", "}">>}
  \cup {<<"txt", "{", b, "}", "txt">> : b \in {"ok", "low", "bare", "types"}}

\* json.loads of a slice: one object, or JSONDecodeError (NoDict)
JsonLoads(slice) ==
  IF slice = <<"{", "}">>
    THEN EmptyDict
    ELSE IF Len(slice) = 3 /\ slice[1] = "{" /\ slice[3] = "}" /\ slice[2] \in BodyIds
      THEN JsonBodies[slice[2]]
      ELSE NoDict

_safe_json(text) ==
  LET opens == {i \in 1..Len(text) : text[i] = "{"}
      closes == {i \in 1..Len(text) : text[i] = "}"}
  IN IF text = <<>> \/ opens = {} \/ closes = {}
       THEN NoDict
       ELSE JsonLoads(SubSeq(text, Min(opens), Max(closes)))

----------------------------------------------------------------------------
(* Embeddings and similarity *)

ENone == [k |-> "none", x |-> 0, y |-> 0]

Vec(x, y) == [k |-> "vec", x |-> x, y |-> y]

\* np.zeros: the embedding of a text of white space only
ZeroVec == Vec(0, 0)

\* EmbeddingManager.embed_text: zeros for blank text, else the unit vector
\* the sentence model gives the text (model: the vector chosen for it)
embed_text(text, model) ==
  IF Strip(text) = <<>> THEN ZeroVec ELSE model

_embed_query(text, model) ==
  IF text = <<>> THEN ENone ELSE embed_text(text, model)

Dot(a, b) == a.x * b.x + a.y * b.y

\* vec.any()
NonZero(a) == a.x # 0 \/ a.y # 0

_similarity(vec_a, vec_b) ==
  IF vec_a.k = "none" \/ vec_b.k = "none"
    THEN NNone
    ELSE IF ~NonZero(vec_a) \/ ~NonZero(vec_b)
      THEN NNone
      ELSE NNum(Max({-1000000, Min({1000000, Dot(vec_a, vec_b)})}))

----------------------------------------------------------------------------
(* Explicit signals *)

_detect_explicit_signal(text, vocab) ==
  IF text = <<>>
    THEN PNone
    ELSE The({IF hits = {} THEN PNone ELSE PStr(vocab[Min(hits)].label) :
              hits \in {{i \in 1..Len(vocab) :
                           \E n \in 1..Len(vocab[i].keywords) :
                             Contains(LowerText(vocab[i].keywords[n]), lowered)} :
                         lowered \in {LowerText(text)}}})

----------------------------------------------------------------------------
(* The user texts of the model and what the pure text functions give them *)

TextList ==
  <<TxtDatabase, TxtRename, TxtEmpty, TxtBlank, TxtAppFile, TxtBoth, TxtExplain,
    TxtKoRename>>

Texts == Range(TextList)

TextIndex(text) == CHOOSE n \in 1..Len(TextList) : TextList[n] = text

\* the unit vector the sentence model gives each text (embedding.py:24-29);
\* (650, 760) has similarity 0.65 with (1000, 0) and 0.76 with (0, 1000)
EmbeddingModel(text) ==
  CASE text \in {TxtDatabase, TxtBoth} -> Vec(1000, 0)
    [] text \in {TxtRename, TxtExplain} -> Vec(650, 760)
    [] OTHER -> Vec(0, 1000)

\* self._detect_explicit_signal(user_text, self.EXPLICIT_SOURCE_SIGNALS) and
\* (..., self.EXPLICIT_INTENT_SIGNALS) of one text
SignalsOf(t) ==
  [source |-> _detect_explicit_signal(t, EXPLICIT_SOURCE_SIGNALS),
   intent |-> _detect_explicit_signal(t, EXPLICIT_INTENT_SIGNALS)]

\* the same for each text of TextList, computed once
ExplicitSignalList ==
  <<SignalsOf(TextList[1]), SignalsOf(TextList[2]), SignalsOf(TextList[3]),
    SignalsOf(TextList[4]), SignalsOf(TextList[5]), SignalsOf(TextList[6]),
    SignalsOf(TextList[7]), SignalsOf(TextList[8])>>

ExplicitSignals == [t \in Texts |-> ExplicitSignalList[TextIndex(t)]]

\* self._embed_query(user_text) of each text
QueryEmbeddings == [t \in Texts |-> _embed_query(t, EmbeddingModel(t))]

\* self._build_action_plan(user_text) of each text of TextList, computed once
ActionPlanList ==
  <<_build_action_plan(TextList[1]), _build_action_plan(TextList[2]),
    _build_action_plan(TextList[3]), _build_action_plan(TextList[4]),
    _build_action_plan(TextList[5]), _build_action_plan(TextList[6]),
    _build_action_plan(TextList[7]), _build_action_plan(TextList[8])>>

ActionPlans == [t \in Texts |-> ActionPlanList[TextIndex(t)]]

----------------------------------------------------------------------------
(* Conversation state: RoutingManager.routing_state *)

\* no entry for the key in routing_state
AbsentState ==
  [k |-> "absent", last_source |-> PNone, last_intent |-> PNone,
   last_user_query |-> <<>>, last_query_embedding |-> ENone]

\* the entry {} that setdefault creates: every .get gives None
EmptyState == [AbsentState EXCEPT !.k = "empty"]

\* a step of a turn that did not consult the state
NotRead == [AbsentState EXCEPT !.k = "notread"]

\* key or "__default__"
StateKey(key) == IF Truthy(key) THEN key.v ELSE "__default__"

\* routing_state.setdefault(state_key, {}): the dictionary after the call
_get_state(rs, key) ==
  IF rs[StateKey(key)].k = "absent"
    THEN [rs EXCEPT ![StateKey(key)] = EmptyState]
    ELSE rs

\* a faulty commit that leaves last_intent as it was: the record it stores
\* mixes two turns
_update_routing_state_KeepsIntent(rs, key, routing_context, user_text, query_embedding) ==
  [_get_state(rs, key) EXCEPT ![StateKey(key)] =
     [k |-> "set",
      last_source |-> routing_context.final_source,
      last_intent |-> rs[StateKey(key)].last_intent,
      last_user_query |-> user_text,
      last_query_embedding |-> query_embedding]]

\* the entry of the key after the four assignments
_update_routing_state(rs, key, routing_context, user_text, query_embedding) ==
  [_get_state(rs, key) EXCEPT ![StateKey(key)] =
     [k |-> "set",
      last_source |-> routing_context.final_source,
      last_intent |-> routing_context.final_intent,
      last_user_query |-> user_text,
      last_query_embedding |-> query_embedding]]

----------------------------------------------------------------------------
(* The signal steps of RoutingManager.route *)

\* a faulty comparison that leaves out similarity = SIMILARITY_THRESHOLD
Similar_Strict(query_embedding, state) ==
  LET similarity == _similarity(query_embedding, state.last_query_embedding)
  IN similarity.k = "num" /\ similarity.v > SIMILARITY_THRESHOLD

\* similarity is not None and similarity >= SIMILARITY_THRESHOLD
Similar(query_embedding, state) ==
  LET similarity == _similarity(query_embedding, state.last_query_embedding)
  IN similarity.k = "num" /\ similarity.v >= SIMILARITY_THRESHOLD

\* a faulty source step that consults the conversation state before the
\* keywords
_run_source_router_StateFirst(user_text, state, query_embedding) ==
  LET explicit == ExplicitSignals[user_text].source
  IN IF Similar(query_embedding, state) /\ Truthy(state.last_source)
       THEN MkDict(state.last_source, PNone, PNone, NNum(800), "state continuity")
       ELSE IF Truthy(explicit)
         THEN MkDict(explicit, PNone, PNone, NNum(950), "explicit signal")
         ELSE NoDict

\* a faulty source step without the continuity rule
_run_source_router_NoContinuity(user_text, state, query_embedding) ==
  LET explicit == ExplicitSignals[user_text].source
  IN IF Truthy(explicit)
       THEN MkDict(explicit, PNone, PNone, NNum(950), "explicit signal")
       ELSE NoDict

\* _run_source_router up to its classifier call: the signal, or NoDict when
\* the classifier has to be asked
_run_source_router(user_text, state, query_embedding) ==
  LET explicit == ExplicitSignals[user_text].source
  IN IF Truthy(explicit)
       THEN MkDict(explicit, PNone, PNone, NNum(950), "explicit signal")
       ELSE IF Similar(query_embedding, state) /\ Truthy(state.last_source)
         THEN MkDict(state.last_source, PNone, PNone, NNum(800), "state continuity")
         ELSE NoDict

\* _run_intent_router up to its classifier call
_run_intent_router(user_text, state, query_embedding) ==
  LET explicit == ExplicitSignals[user_text].intent
  IN IF Truthy(explicit)
       THEN MkDict(PNone, explicit, PNone, NNum(950), "explicit signal")
       ELSE IF Similar(query_embedding, state) /\ state.last_source = PStr("postgres")
         THEN MkDict(PNone, PStr("lookup"), PNone, NNum(800), "postgres continuity")
         ELSE IF /\ Similar(query_embedding, state)
                 /\ state.last_source \in {PStr("filesystem"), PStr("local file")}
           THEN MkDict(PNone, PStr("read"), PNone, NNum(800), "filesystem continuity")
           ELSE NoDict

_run_safety_router(user_text, state, query_embedding) ==
  LET explicit == ExplicitSignals[user_text].source
  IN IF Truthy(explicit)
       THEN [override_source |-> explicit, override_intent |-> PStr("none"),
             reason |-> "explicit source signal"]
       ELSE IF Similar(query_embedding, state) /\ Truthy(state.last_source)
         THEN [override_source |-> state.last_source,
               override_intent |-> state.last_intent,
               reason |-> "state continuity"]
         ELSE DEFAULT_SAFETY

\* whether a step consults the conversation state: not when an explicit
\* keyword decides it first
ReadsState(explicit) == ~Truthy(explicit)

\* await self._call_router(...) or DEFAULT: the reply parsed, the default
\* when it is None or {}
OrDefault(reply, default) ==
  LET parsed == _safe_json(reply)
  IN IF DictTruthy(parsed) THEN parsed ELSE default

----------------------------------------------------------------------------
(* RoutingAggregator *)

\* a faulty conversion that counts a missing confidence as 0
_safe_conf_NoneIsZero(value) ==
  IF value.k \in {"num", "numstr"} THEN [k |-> "num", v |-> value.v]
  ELSE [k |-> "num", v |-> 0]

\* float(value), None on TypeError and ValueError
_safe_conf(value) ==
  IF value.k \in {"num", "numstr"} THEN NNum(value.v) ELSE NNone

\* round(n / d) to the nearest integer, a tie to the even one.  The code
\* rounds the binary quotient, which at a tie of the decimal values lies on
\* either side: Nearest gives both.  The confidences of the router runs of
\* this module never tie.
RoundDiv(n, d) ==
  LET q == n \div d
      r == n % d
  IN IF 2 * r < d THEN q
     ELSE IF 2 * r > d THEN q + 1
     ELSE IF q % 2 = 0 THEN q ELSE q + 1

\* round(n / d) for every binary value the quotient can have
Nearest(n, d) ==
  {q \in {n \div d, (n \div d) + 1} : 2 * (n - q * d) <= d /\ 2 * (q * d - n) <= d}

\* a faulty override that takes "none" for a value
Override_TakesNone(x, y) == IF Truthy(x) THEN x ELSE y

\* x if x and x != "none" else y
Override(x, y) == IF Truthy(x) /\ x # PStr("none") THEN x ELSE y

\* x or y
Or(x, y) == IF Truthy(x) THEN x ELSE y

\* lines 50-60: the loop over the three confidences, weights in tenths
WeightedMean(source, intent, self_check) ==
  LET source_conf == _safe_conf(source.confidence)
      intent_conf == _safe_conf(intent.confidence)
      self_conf == _safe_conf(self_check.confidence)
  IN [weighted_sum |->
        (IF source_conf.k = "num" THEN source_conf.v * SourceWeight ELSE 0)
        + (IF intent_conf.k = "num" THEN intent_conf.v * IntentWeight ELSE 0)
        + (IF self_conf.k = "num" THEN self_conf.v * SelfWeight ELSE 0),
      weight_total |->
        (IF source_conf.k = "num" THEN SourceWeight ELSE 0)
        + (IF intent_conf.k = "num" THEN IntentWeight ELSE 0)
        + (IF self_conf.k = "num" THEN SelfWeight ELSE 0)]

\* max(0.0, min(1.0, x)), in thousandths
Unit(x) == Max({0, Min({1000, x})})

Aggregate(source, intent, safety, self_check) ==
  LET final_source ==
        Or(Override(safety.override_source, source.source), DEFAULT_SOURCE.source)
      final_intent ==
        Or(Override(safety.override_intent, intent.intent), DEFAULT_INTENT.intent)
      mean == WeightedMean(source, intent, self_check)
      routing_confidence ==
        IF mean.weight_total # 0
          THEN RoundDiv(mean.weighted_sum, mean.weight_total)
          ELSE 250
  IN [final_source |-> final_source,
      final_intent |-> final_intent,
      routing_confidence |-> Unit(routing_confidence)]

\* the same with the quotient rounded either way at a tie
AggregateOutcomes(source, intent, safety, self_check) ==
  LET mean == WeightedMean(source, intent, self_check)
  IN {[Aggregate(source, intent, safety, self_check) EXCEPT
         !.routing_confidence = Unit(rc)] :
        rc \in IF mean.weight_total # 0
                 THEN Nearest(mean.weighted_sum, mean.weight_total)
                 ELSE {250}}

----------------------------------------------------------------------------
(* Tool selection: _run_function_router, _has_valid_function, FallbackRouter *)

\* str.lower() of a label: the labels of the model are lower-case but these
LowerLabel(s) ==
  CASE s = "Postgres" -> "postgres"
    [] s = " None " -> " none "
    [] s = "None" -> "none"
    [] OTHER -> s

\* str.strip() of a label
StripLabel(s) ==
  CASE s = " None " -> "None"
    [] s = " none " -> "none"
    [] OTHER -> s

\* the choice forced below the gate
BelowGateChoice(routing_context) ==
  MkDict(PNone, PNone, PStr("none"), NNum(routing_context.routing_confidence),
         "routing_confidence below threshold")

\* confidence < self.confidence_gate
BelowGate(routing_context) == routing_context.routing_confidence < ConfidenceGate

\* await self._call_router(payload, "function_router") or {}
OrEmpty(reply) ==
  LET parsed == _safe_json(reply)
  IN IF DictTruthy(parsed) THEN parsed ELSE EmptyDict

\* "valid", "invalid", or "raise": .strip() on a name that is no string
_has_valid_function(function_call) ==
  IF ~DictTruthy(function_call)
    THEN "invalid"
    ELSE IF ~Truthy(function_call.name)
      THEN "invalid"
      ELSE IF function_call.name.k # "str"
        THEN "raise"
        ELSE LET name == LowerLabel(StripLabel(function_call.name.v))
             IN IF name # "" /\ name # "none" THEN "valid" ELSE "invalid"

\* the characters of [A-Za-z0-9_.-]
ExtChars == Range(UpperChars) \cup Range(LowerChars) \cup DigitChars \cup {"_", ".", "-"}

\* the characters of [A-Za-z0-9_\-./]
PathChars == ExtChars \cup {"/"}

\* the position of the "." that ends the lazy head [A-Za-z0-9_\-./]+? started
\* at position i, 0 if the pattern does not match from i
DotFrom(t, i) ==
  The({IF dots = {} THEN 0 ELSE Min(dots) :
       dots \in {{j \in (i + 1)..(i + RunLen(t, i, PathChars) - 1) :
                   t[j] = "." /\ j < Len(t) /\ t[j + 1] \in ExtChars}}})

\* str.lstrip("./")
LStripDotSlash(t) == SubSeq(t, 1 + RunLen(t, 1, {".", "/"}), Len(t))

\* FILE_TOKEN_PATTERN.search(text).group(1).lstrip("./"), <<>> for no match
_extract_primary_path(text) ==
  The({IF starts = {}
         THEN <<>>
         ELSE The({LStripDotSlash(SubSeq(text, i, j + RunLen(text, j + 1, ExtChars))) :
                   <<i, j>> \in {<<s, DotFrom(text, s)>> : s \in {Min(starts)}}}) :
       starts \in {{i \in 1..Len(text) : DotFrom(text, i) # 0}}})

\* .lower() raises AttributeError on a value that is truthy and no string
FallbackRaises(routing_context) ==
  \/ routing_context.final_source.k = "int" /\ Truthy(routing_context.final_source)
  \/ routing_context.final_intent.k = "int" /\ Truthy(routing_context.final_intent)

\* self._extract_primary_path(user_text) of each text of TextList, computed once
PrimaryPathList ==
  <<_extract_primary_path(TextList[1]), _extract_primary_path(TextList[2]),
    _extract_primary_path(TextList[3]), _extract_primary_path(TextList[4]),
    _extract_primary_path(TextList[5]), _extract_primary_path(TextList[6]),
    _extract_primary_path(TextList[7]), _extract_primary_path(TextList[8])>>

PrimaryPaths == [t \in Texts |-> PrimaryPathList[TextIndex(t)]]

\* the name FallbackRouter.select returns
FallbackName(user_text, routing_context) ==
  LET final_source == LowerLabel(Or(routing_context.final_source, PStr("")).v)
      final_intent == LowerLabel(Or(routing_context.final_intent, PStr("")).v)
  IN IF final_source \in {"filesystem", "local file"}
       THEN IF /\ final_intent \in {"read", "check_contents", "summarize"}
               /\ PrimaryPaths[user_text] # <<>>
              THEN "read_file"
              ELSE "search_file"
       ELSE IF final_source = "repo_chunks"
         THEN IF final_intent \in {"file_metadata", "search_file"}
                THEN "rag_search_files"
                ELSE IF final_intent = "symbol_graph"
                  THEN "rag_search_symbols"
                  ELSE "rag_search_chunks"
         ELSE IF final_source = "postgres"
           THEN IF final_intent = "schema_view"
                  THEN "inspect_table_columns"
                  ELSE "connect_db"
           ELSE IF final_source = "external_web"
             THEN "search_web"
             ELSE "answer_direct"

\* the reason FallbackRouter.select gives with the name
FallbackReason(name) ==
  CASE name \in {"read_file", "search_file"} -> "fallback filesystem mapping"
    [] name \in {"rag_search_chunks", "rag_search_files", "rag_search_symbols"} ->
         "fallback repo_chunks mapping"
    [] name = "inspect_table_columns" -> "fallback postgres schema_view"
    [] name = "connect_db" -> "fallback postgres query"
    [] name = "search_web" -> "fallback external_web"
    [] OTHER -> "fallback direct answer"

FallbackSelect(user_text, routing_context) ==
  LET name == FallbackName(user_text, routing_context)
  IN MkDict(PNone, PNone, PStr(name),
            NNum(routing_context.routing_confidence), FallbackReason(name))

----------------------------------------------------------------------------
(* Inputs of the model *)

\* concurrent calls of route the event loop may hold
Procs == {1, 2}

\* calls of route in one run
MaxTurns == 2

\* the state_key arguments: None, "", the default's own name, an ordinary id
CallerKeys == {PNone, PStr(""), PStr("__default__"), PStr("a")}

StoredKeys == {StateKey(key) : key \in CallerKeys}

\* the self_check argument: None, or the self-checker's dictionary
SelfChecks == {NoDict, MkDict(PNone, PNone, PNone, NNum(900), "")}

Tasks == {"source_router", "intent_router", "function_router"}

----------------------------------------------------------------------------
(* One call of route, RoutingManager.route, between its suspension points *)

NoSafety == [override_source |-> PNone, override_intent |-> PNone, reason |-> ""]

NoContext == [final_source |-> PNone, final_intent |-> PNone, routing_confidence |-> 0]

NoPlan == [mode |-> "", needs_llm_transformation |-> FALSE]

\* a slot with no call of route in it
IdleTurn ==
  [pc |-> "idle", key |-> PNone, text |-> <<>>, self_check |-> NoDict,
   query_embedding |-> ENone, source |-> NoDict, intent |-> NoDict,
   safety |-> NoSafety, routing_context |-> NoContext, action_plan |-> NoPlan,
   function_router |-> NoDict, fallback_function |-> NoDict,
   final_function |-> NoDict, calls |-> {}, error |-> "",
   before |-> AbsentState, seen_source |-> NotRead, seen_intent |-> NotRead,
   seen_safety |-> NotRead, foreign |-> FALSE]

\* lines 186-205: the final call, then the commit (marked by pc "done");
\* an AttributeError of _has_valid_function or of select leaves route
FinishTurn(t) ==
  LET valid == _has_valid_function(t.function_router)
  IN IF valid = "raise"
       THEN [t EXCEPT !.pc = "raised", !.error = "AttributeError"]
       ELSE IF valid = "valid"
         THEN [t EXCEPT !.pc = "done", !.final_function = t.function_router]
         ELSE IF FallbackRaises(t.routing_context)
           THEN [t EXCEPT !.pc = "raised", !.error = "AttributeError"]
           ELSE The({[t EXCEPT !.pc = "done", !.fallback_function = choice,
                                !.final_function = choice] :
                     choice \in {FallbackSelect(t.text, t.routing_context)}})

\* lines 178-184: safety pass, aggregation, action plan, and the function
\* router up to its classifier call
AfterIntent(t, state) ==
  LET safety == _run_safety_router(t.text, state, t.query_embedding)
      routing_context == Aggregate(t.source, t.intent, safety, t.self_check)
      u == [t EXCEPT !.safety = safety,
                     !.routing_context = routing_context,
                     !.action_plan = ActionPlans[t.text],
                     !.seen_safety =
                        IF ReadsState(ExplicitSignals[t.text].source)
                          THEN state ELSE NotRead]
  IN IF BelowGate(routing_context)
       THEN The({FinishTurn(v) : v \in {[u EXCEPT !.function_router = BelowGateChoice(routing_context)]}})
       ELSE [u EXCEPT !.pc = "await_tool", !.calls = @ \cup {"function_router"}]

\* line 177: the intent step up to its classifier call
AfterSource(t, state) ==
  LET intent == _run_intent_router(t.text, state, t.query_embedding)
      u == [t EXCEPT !.seen_intent =
                        IF ReadsState(ExplicitSignals[t.text].intent)
                          THEN state ELSE NotRead]
  IN IF intent.k = "dict"
       THEN The({AfterIntent(v, state) : v \in {[u EXCEPT !.intent = intent]}})
       ELSE [u EXCEPT !.pc = "await_intent", !.calls = @ \cup {"intent_router"}]

\* lines 173-176: state lookup, embedding, the source step up to its
\* classifier call
BeginTurn(key, text, self_check, before, state) ==
  LET query_embedding == QueryEmbeddings[text]
      source == _run_source_router(text, state, query_embedding)
      t == [IdleTurn EXCEPT !.key = key, !.text = text, !.self_check = self_check,
                            !.query_embedding = query_embedding,
                            !.before = before,
                            !.seen_source =
                               IF ReadsState(ExplicitSignals[text].source)
                                 THEN state ELSE NotRead]
  IN IF source.k = "dict"
       THEN The({AfterSource(v, state) : v \in {[t EXCEPT !.source = source]}})
       ELSE [t EXCEPT !.pc = "await_source", !.calls = @ \cup {"source_router"}]

\* a faulty commit that skips a turn decided below the confidence gate
Committed_OnlyAboveGate(rs, t) ==
  IF t.pc = "done" /\ ~BelowGate(t.routing_context)
    THEN _update_routing_state(rs, t.key, t.routing_context, t.text, t.query_embedding)
    ELSE rs

\* line 192 when the turn is done: the dictionary after the commit
Committed(rs, t) ==
  IF t.pc = "done"
    THEN _update_routing_state(rs, t.key, t.routing_context, t.text, t.query_embedding)
    ELSE rs

\* the slots after process p moved to t and the dictionary became rs: another
\* call in flight learns that its key's entry was written under it
Slots(p, t, rs) ==
  [q \in Procs |->
     IF q = p
       THEN t
       ELSE IF /\ turn[q].pc # "idle"
               /\ rs[StateKey(turn[q].key)] # routing_state[StateKey(turn[q].key)]
         THEN [turn[q] EXCEPT !.foreign = TRUE]
         ELSE turn[q]]

\* process p reaches its next suspension point or the end of route as t,
\* from the dictionary rs: line 192 commits when the turn is done
Advance(p, rs, t) ==
  \E u \in {t} :
    \E rs2 \in {Committed(rs, u)} :
      /\ routing_state' = rs2
      /\ turn' = Slots(p, u, rs2)

TypeOK ==
  /\ DOMAIN routing_state = StoredKeys
  /\ DOMAIN turn = Procs
  /\ started \in 0..MaxTurns

Init ==
  /\ routing_state = [s \in StoredKeys |-> AbsentState]
  /\ turn = [p \in Procs |-> IdleTurn]
  /\ started = 0
  /\ direct = Idle
  /\ chunker = Idle
  /\ extractor = Idle
  /\ retriever = Idle

\* A caller awaits route(user_text, self_check, state_key).  The call takes
\* the lowest free slot; with concurrent = FALSE the callers await one call
\* before they make the next.
Start(p, key, text, self_check, concurrent) ==
  /\ turn[p].pc = "idle"
  /\ \A q \in Procs : q < p => turn[q].pc # "idle"
  /\ concurrent \/ \A q \in Procs : turn[q].pc = "idle"
  /\ started < MaxTurns
  /\ \E rs \in {_get_state(routing_state, key)} :
       Advance(p, rs, BeginTurn(key, text, self_check,
                                routing_state[StateKey(key)], rs[StateKey(key)]))
  /\ started' = started + 1
  /\ UNCHANGED <<direct, others>>

\* the source classifier answers
SourceReply(p, reply) ==
  /\ turn[p].pc = "await_source"
  /\ \E t \in {[turn[p] EXCEPT !.source = OrDefault(reply, DEFAULT_SOURCE)]} :
       Advance(p, routing_state,
               AfterSource(t, routing_state[StateKey(turn[p].key)]))
  /\ UNCHANGED <<started, direct, others>>

\* the intent classifier answers
IntentReply(p, reply) ==
  /\ turn[p].pc = "await_intent"
  /\ \E t \in {[turn[p] EXCEPT !.intent = OrDefault(reply, DEFAULT_INTENT)]} :
       Advance(p, routing_state,
               AfterIntent(t, routing_state[StateKey(turn[p].key)]))
  /\ UNCHANGED <<started, direct, others>>

\* the tool classifier answers
ToolReply(p, reply) ==
  /\ turn[p].pc = "await_tool"
  /\ \E t \in {[turn[p] EXCEPT !.function_router = OrEmpty(reply)]} :
       Advance(p, routing_state, FinishTurn(t))
  /\ UNCHANGED <<started, direct, others>>

\* run_llm_call raises (a timeout, a transport error): nothing in route
\* catches it
LlmRaises(p) ==
  /\ turn[p].pc \in {"await_source", "await_intent", "await_tool"}
  /\ turn' = [turn EXCEPT ![p].pc = "raised", ![p].error = "LlmError"]
  /\ UNCHANGED <<routing_state, started, direct, others>>

\* the caller cancels the task while it is suspended in run_llm_call
Cancel(p) ==
  /\ turn[p].pc \in {"await_source", "await_intent", "await_tool"}
  /\ turn' = [turn EXCEPT ![p].pc = "cancelled", ![p].error = "CancelledError"]
  /\ UNCHANGED <<routing_state, started, direct, others>>

\* the caller takes the decision or the exception; the slot is free again
Collect(p) ==
  /\ turn[p].pc \in {"done", "raised", "cancelled"}
  /\ turn' = [turn EXCEPT ![p] = IdleTurn]
  /\ UNCHANGED <<routing_state, started, direct, others>>

\* the steps of the router for callers that pass these keys, texts and
\* self-check results and a collaborator that sends these replies
NextOver(keys, texts, checks, replies, concurrent) ==
  \/ \E p \in Procs, key \in keys, text \in texts, self_check \in checks :
       Start(p, key, text, self_check, concurrent)
  \/ \E p \in Procs, reply \in replies : SourceReply(p, reply)
  \/ \E p \in Procs, reply \in replies : IntentReply(p, reply)
  \/ \E p \in Procs, reply \in replies : ToolReply(p, reply)
  \/ \E p \in Procs : LlmRaises(p)
  \/ \E p \in Procs : Cancel(p)
  \/ \E p \in Procs : Collect(p)

Next == NextOver(CallerKeys, Texts, SelfChecks, Replies, FALSE)

\* one conversation after another: every key, text, self-check and reply
Spec == Init /\ [][Next]_vars

\* the inputs of the concurrent runs
ConcurrentKeys == {PNone, PStr("a")}

ConcurrentTexts == {TxtDatabase, TxtRename}

ConcurrentReplies == {<<>>, <<"txt", "{", "ok", "}", "txt">>, <<"txt", "{", "bare", "}", "txt">>}

NextConcurrent ==
  NextOver(ConcurrentKeys, ConcurrentTexts, {NoDict}, ConcurrentReplies, TRUE)

\* two calls of route in flight at once, interleaved at their suspension points
SpecConcurrent == Init /\ [][NextConcurrent]_vars

----------------------------------------------------------------------------
(* Properties *)

Awaiting == {"await_source", "await_intent", "await_tool"}

\* line 179 has run in the turn: the aggregated context and the plan exist
Aggregated(t) == t.action_plan # NoPlan

\* the state a turn was handed by _get_state when it started
StartState(t) == IF t.before.k = "absent" THEN EmptyState ELSE t.before

\* the texts that contain "database" and no keyword of the filesystem entry
DatabaseTexts ==
  {t \in Texts :
     /\ Contains(<<"d", "a", "t", "a", "b", "a", "s", "e">>, LowerText(t))
     /\ \A n \in 1..Len(EXPLICIT_SOURCE_SIGNALS) :
          EXPLICIT_SOURCE_SIGNALS[n].label = "filesystem" =>
            \A m \in 1..Len(EXPLICIT_SOURCE_SIGNALS[n].keywords) :
              ~Contains(EXPLICIT_SOURCE_SIGNALS[n].keywords[m], LowerText(t))}

\* the texts with no explicit source keyword and no explicit intent keyword
PlainTexts ==
  {t \in Texts : /\ ~Truthy(ExplicitSignals[t].source)
                 /\ ~Truthy(ExplicitSignals[t].intent)}

\* C1: a turn whose text contains "database" and no filesystem keyword has
\* the source signal postgres at confidence 0.95, and its aggregated
\* final_source is postgres, whatever the conversation state was before
C1_DatabaseIsPostgres ==
  \A p \in Procs :
    (turn[p].pc # "idle" /\ turn[p].text \in DatabaseTexts) =>
      /\ turn[p].source.source = PStr("postgres")
      /\ turn[p].source.confidence = NNum(950)
      /\ "source_router" \notin turn[p].calls
      /\ Aggregated(turn[p]) =>
           turn[p].routing_context.final_source = PStr("postgres")

\* C1 happens: such a turn completed on a conversation whose last turn had
\* the source filesystem and a query embedding similar to this one
C1_Witness ==
  \E p \in Procs :
    /\ turn[p].pc = "done"
    /\ turn[p].text = TxtDatabase
    /\ turn[p].before.k = "set"
    /\ turn[p].before.last_source = PStr("filesystem")
    /\ _similarity(turn[p].query_embedding,
                   turn[p].before.last_query_embedding) = NNum(1000000)

\* the precondition of C2: the conversation has a committed turn, this turn's
\* text has no explicit keyword, and the cosine similarity of its embedding
\* with the stored one is defined and at least 0.65
Continues(t) ==
  /\ t.pc # "idle"
  /\ ~t.foreign
  /\ t.text \in PlainTexts
  /\ t.before.k = "set"
  /\ _similarity(t.query_embedding, t.before.last_query_embedding).k = "num"
  /\ _similarity(t.query_embedding, t.before.last_query_embedding).v >= SIMILARITY_THRESHOLD

\* C2: the second of two consecutive completed turns of a conversation, with
\* no explicit keyword and similarity >= 0.65 to the first, takes the first
\* turn's final_source as its source signal and as its final_source, at
\* source confidence 0.8, and does not call the source classifier
C2_ContinuityReusesSource ==
  \A p \in Procs :
    Continues(turn[p]) =>
      /\ turn[p].source.source = turn[p].before.last_source
      /\ turn[p].source.confidence = NNum(800)
      /\ "source_router" \notin turn[p].calls
      /\ Aggregated(turn[p]) =>
           turn[p].routing_context.final_source = turn[p].before.last_source

\* C2 happens: a completed turn at similarity exactly 0.65 after a turn
\* that ended on postgres
C2_Witness ==
  \E p \in Procs :
    /\ Continues(turn[p])
    /\ turn[p].pc = "done"
    /\ turn[p].text = TxtRename
    /\ turn[p].before.last_source = PStr("postgres")
    /\ _similarity(turn[p].query_embedding,
                   turn[p].before.last_query_embedding) = NNum(650000)

\* C3: below the gate the tool classifier is not called, function_router is
\* the forced "none" choice, and the turn ends with the fallback's tool, a
\* name other than "none"; at or above the gate the classifier is called
C3_GateForcesFallback ==
  \A p \in Procs :
    Aggregated(turn[p]) =>
      IF turn[p].routing_context.routing_confidence < ConfidenceGate
        THEN /\ "function_router" \notin turn[p].calls
             /\ turn[p].function_router.name = PStr("none")
             /\ turn[p].function_router.reason = "routing_confidence below threshold"
             /\ turn[p].pc = "done"
             /\ turn[p].final_function = turn[p].fallback_function
             /\ turn[p].final_function.name.k = "str"
             /\ turn[p].final_function.name.v \notin {"", "none"}
        ELSE "function_router" \in turn[p].calls

\* C4: route never raises to its caller, whatever a classifier call does
C4_NeverRaises ==
  \A p \in Procs : turn[p].pc # "raised"

\* C5: when a turn is cancelled or fails before the commit, the entry of its
\* conversation in routing_state is what it was before the turn started
C5_CancelledLeavesState ==
  \A p \in Procs :
    (turn[p].pc \in {"cancelled", "raised"} /\ ~turn[p].foreign) =>
      routing_state[StateKey(turn[p].key)] = turn[p].before

\* C6: the source, intent and safety steps of one turn all see the state of
\* the conversation as it was when the turn started
C6_OneSnapshot ==
  \A p \in Procs :
    turn[p].pc # "idle" =>
      /\ turn[p].seen_source \in {NotRead, StartState(turn[p])}
      /\ turn[p].seen_intent \in {NotRead, StartState(turn[p])}
      /\ turn[p].seen_safety \in {NotRead, StartState(turn[p])}

\* the four fields of a stored record
Fields(state) ==
  <<state.last_source, state.last_intent, state.last_user_query,
    state.last_query_embedding>>

C8_KeysAreSeparate ==
  [][\A p \in Procs, B \in CallerKeys :
       (turn'[p] # turn[p] /\ turn'[p].pc # "idle" /\ B # turn'[p].key) =>
         Fields(routing_state'[StateKey(B)]) = Fields(routing_state[StateKey(B)])]_vars

\* the names FallbackRouter.select can return: the tool catalogue
ToolCatalogue ==
  {"read_file", "search_file", "rag_search_chunks", "rag_search_files",
   "rag_search_symbols", "inspect_table_columns", "connect_db", "search_web",
   "answer_direct"}

\* C9: the tool name of every decision is a name of the catalogue
C9_FinalToolInCatalogue ==
  \A p \in Procs :
    turn[p].pc = "done" =>
      /\ turn[p].final_function.name.k = "str"
      /\ turn[p].final_function.name.v \in ToolCatalogue

\* C10: "open this file and rename the function" gets the action plan mode
\* read_then_modify
C10_RenameIsReadThenModify ==
  \A p \in Procs :
    (turn[p].text = TxtRename /\ Aggregated(turn[p])) =>
      turn[p].action_plan.mode = "read_then_modify"

----------------------------------------------------------------------------
(* Properties of the aggregation *)

\* the override when it is present and not "none", otherwise the value of
\* the step when it is present, otherwise the default
Preferred(override, step, default) ==
  IF override # PNone /\ override # PStr("") /\ override # PStr("none")
    THEN override
    ELSE IF Truthy(step) THEN step ELSE default

\* C22: final_source is the safety override_source when that is present and
\* not "none", otherwise the source step's value, otherwise "repo_chunks";
\* final_intent likewise from override_intent, the intent step's value and
\* "lookup"; and neither is empty
C22_OverrideThenStepThenDefault ==
  \A p \in Procs :
    Aggregated(turn[p]) =>
      /\ turn[p].routing_context.final_source =
           Preferred(turn[p].safety.override_source, turn[p].source.source,
                     PStr("repo_chunks"))
      /\ turn[p].routing_context.final_intent =
           Preferred(turn[p].safety.override_intent, turn[p].intent.intent,
                     PStr("lookup"))
      /\ Truthy(turn[p].routing_context.final_source)
      /\ Truthy(turn[p].routing_context.final_intent)

\* C22 happens: a completed turn whose overrides are both set, its
\* override_intent differing from the value of the intent step
C22_Witness ==
  \E p \in Procs :
    /\ turn[p].pc = "done"
    /\ Truthy(turn[p].intent.intent)
    /\ turn[p].safety.override_source # PStr("none")
    /\ turn[p].safety.override_intent \notin {PStr("none"), turn[p].intent.intent}
    /\ turn[p].routing_context.final_intent = turn[p].safety.override_intent

----------------------------------------------------------------------------
(* Properties of the stored state *)

\* C25: the step that completes a turn, whether a classifier, the gate or
\* the fallback decided it, leaves in the record of its conversation that
\* turn's final_source, final_intent, text and query embedding
C25_StateIsTheLastTurn ==
  [][\A p \in Procs :
       (turn[p].pc # "done" /\ turn'[p].pc = "done") =>
         Fields(routing_state'[StateKey(turn'[p].key)]) =
           <<turn'[p].routing_context.final_source,
             turn'[p].routing_context.final_intent,
             turn'[p].text,
             turn'[p].query_embedding>>]_vars

\* C25 happens: a turn decided below the gate by the fallback has replaced
\* all four values of the turn before it
C25_Witness ==
  \E p \in Procs :
    /\ turn[p].pc = "done"
    /\ ~turn[p].foreign
    /\ turn[p].before.k = "set"
    /\ BelowGate(turn[p].routing_context)
    /\ DictTruthy(turn[p].fallback_function)
    /\ \A n \in 1..4 :
         Fields(routing_state[StateKey(turn[p].key)])[n] # Fields(turn[p].before)[n]
    /\ Fields(routing_state[StateKey(turn[p].key)]) =
         <<turn[p].routing_context.final_source, turn[p].routing_context.final_intent,
           turn[p].text, turn[p].query_embedding>>
----------------------------------------------------------------------------
(* The arguments of the fallback: the query of connect_db *)

\* the table the text names: one of the four known tables, in their order,
\* if the lowered text contains it, otherwise group 1 of the first match of
\* from\s+([A-Za-z_][\w]*), case ignored; <<>> is None
_detect_known_table(text) ==
  LET lowered == LowerText(text)
      tables == <<<<"r", "e", "p", "o", "_", "m", "e", "t", "a">>,
                  <<"r", "e", "p", "o", "_", "c", "h", "u", "n", "k", "s">>,
                  <<"f", "i", "l", "e", "s", "_", "m", "e", "t", "a">>,
                  <<"s", "y", "m", "b", "o", "l", "_", "l", "i", "n", "k", "s">>>>
      known == {n \in 1..Len(tables) : Contains(tables[n], lowered)}
      word == Range(UpperChars) \cup Range(LowerChars) \cup DigitChars
                \cup {"_"} \cup HangulChars
      name(i) == i + 4 + RunLen(text, i + 4, SpaceChars)
      starts == {i \in 1..Len(text) :
                   /\ MatchesAt(<<"f", "r", "o", "m">>, lowered, i - 1)
                   /\ RunLen(text, i + 4, SpaceChars) >= 1
                   /\ name(i) <= Len(text)
                   /\ text[name(i)] \in (word \ DigitChars) \ HangulChars}
  IN IF known # {}
       THEN tables[Min(known)]
       ELSE IF starts # {}
         THEN SubSeq(text, name(Min(starts)),
                     name(Min(starts)) + RunLen(text, name(Min(starts)), word) - 1)
         ELSE <<>>

\* group 1 of the first match of (select\s.+?)(?:;|$), case ignored and .
\* matching a newline, stripped, with " LIMIT 50" appended when the lowered
\* query does not contain "limit"; <<>> is None.  The lazy .+? takes at
\* least one character, whatever it is, and then stops before the first ";"
\* or at the end of the text ($ also matches before a last newline).
_extract_select_query(text) ==
  LET lowered == LowerText(text)
      starts == {i \in 1..Len(text) :
                   /\ MatchesAt(<<"s", "e", "l", "e", "c", "t">>, lowered, i - 1)
                   /\ i + 7 <= Len(text)
                   /\ text[i + 6] \in SpaceChars}
      last(i) == Min({e \in (i + 7)..Len(text) :
                        \/ e = Len(text)
                        \/ text[e + 1] = ";"
                        \/ e + 1 = Len(text) /\ text[e + 1] = "\n"})
      query == Strip(SubSeq(text, Min(starts), last(Min(starts))))
  IN IF text = <<>> \/ starts = {}
       THEN <<>>
       ELSE IF ~MatchesAt(<<"s", "e", "l", "e", "c", "t">>, LowerText(query), 0)
         THEN <<>>
         ELSE IF ~Contains(<<"l", "i", "m", "i", "t">>, LowerText(query))
           THEN query \o <<" ", "L", "I", "M", "I", "T", " ", "5", "0">>
           ELSE query

\* lines 487-505: the query select puts in a connect_db call
FallbackQuery(user_text) ==
  LET table == _detect_known_table(user_text)
      query == _extract_select_query(user_text)
  IN IF query # <<>>
       THEN query
       ELSE <<"S", "E", "L", "E", "C", "T", " ", "*", " ", "F", "R", "O", "M", " ">>
            \o (IF table # <<>> THEN table
                ELSE <<"r", "e", "p", "o", "_", "m", "e", "t", "a">>)
            \o <<" ", "L", "I", "M", "I", "T", " ", "2", "5">>

----------------------------------------------------------------------------
(* Direct calls of the aggregator, the fallback and the action analysis *)

(***************************************************************************)
(* RoutingAggregator.__call__, FallbackRouter.select and                   *)
(* RoutingManager._build_action_plan read no state of the router.  Here a  *)
(* caller calls one of them directly, on inputs wider than those the runs  *)
(* of route above give them.                                               *)
(***************************************************************************)

\* the confidences a step or the self-check can carry: missing, a string
\* that is no number, a string that is one, and numbers in and out of [0, 1]
ConfidenceValues ==
  {NNone, [k |-> "str", v |-> 0], [k |-> "numstr", v |-> 100],
   NNum(-500), NNum(0), NNum(301), NNum(800), NNum(1000), NNum(1500)}

\* a call about to be made
DirectCall(op, text, source, intent, safety, self_check, routing_context) ==
  [pc |-> "start", op |-> op, text |-> text, source |-> source, intent |-> intent,
   safety |-> safety, self_check |-> self_check,
   routing_context |-> routing_context, result |-> NoDict, query |-> <<>>]

AggregatorCalls ==
  {DirectCall("aggregate", <<>>, MkDict(PNone, PNone, PNone, s, ""),
              MkDict(PNone, PNone, PNone, i, ""), DEFAULT_SAFETY, c, NoContext) :
     s \in ConfidenceValues, i \in ConfidenceValues,
     c \in {NoDict} \cup {MkDict(PNone, PNone, PNone, v, "") : v \in ConfidenceValues}}

\* the texts of the calls of _build_action_plan
PlanTexts ==
  {<<>>,
   \* 'Show x. then FIX y'
   <<"S", "h", "o", "w", " ", "x", ".", " ", "t", "h", "e", "n", " ", "F", "I", "X", " ", "y">>,
   \* 'list and update it'
   <<"l", "i", "s", "t", " ", "a", "n", "d", " ", "u", "p", "d", "a", "t", "e", " ", "i", "t">>,
   \* 'fix it'
   <<"f", "i", "x", " ", "i", "t">>,
   \* 'Show /app/main.py'
   <<"S", "h", "o", "w", " ", "/", "a", "p", "p", "/", "m", "a", "i", "n", ".", "p", "y">>,
   \* 'hello'
   <<"h", "e", "l", "l", "o">>,
   \* 'SH.OW it'
   <<"S", "H", ".", "O", "W", " ", "i", "t">>,
   \* 'ed->it'
   <<"e", "d", "-", ">", "i", "t">>,
   \* '1) list 2) edit'
   <<"1", ")", " ", "l", "i", "s", "t", " ", "2", ")", " ", "e", "d", "i", "t">>,
   \* '  '
   <<" ", " ">>,
   \* 'ud30cuc77c ubcf4uc5ecuc918\nuadf8ub9acuace0 uc218uc815'
   <<"uD30C", "uC77C", " ", "uBCF4", "uC5EC", "uC918", "\n", "uADF8", "uB9AC", "uACE0", " ", "uC218", "uC815">>}

PlanCalls ==
  {DirectCall("plan", text, NoDict, NoDict, DEFAULT_SAFETY, NoDict, NoContext) :
     text \in PlanTexts}

\* the texts of the calls of select that carry or lack a SELECT statement
SqlTexts ==
  {<<>>,
   \* 'select * from users'
   <<"s", "e", "l", "e", "c", "t", " ", "*", " ", "f", "r", "o", "m", " ", "u", "s", "e", "r", "s">>,
   \* 'SELECT id FROM t LIMIT 5'
   <<"S", "E", "L", "E", "C", "T", " ", "i", "d", " ", "F", "R", "O", "M", " ", "t", " ", "L", "I", "M", "I", "T", " ", "5">>,
   \* 'select * from limits'
   <<"s", "e", "l", "e", "c", "t", " ", "*", " ", "f", "r", "o", "m", " ", "l", "i", "m", "i", "t", "s">>,
   \* 'select ;drop table users'
   <<"s", "e", "l", "e", "c", "t", " ", ";", "d", "r", "o", "p", " ", "t", "a", "b", "l", "e", " ", "u", "s", "e", "r", "s">>,
   \* 'select a from t; drop table t'
   <<"s", "e", "l", "e", "c", "t", " ", "a", " ", "f", "r", "o", "m", " ", "t", ";", " ", "d", "r", "o", "p", " ", "t", "a", "b", "l", "e", " ", "t">>,
   \* 'rows from repo_chunks'
   <<"r", "o", "w", "s", " ", "f", "r", "o", "m", " ", "r", "e", "p", "o", "_", "c", "h", "u", "n", "k", "s">>,
   \* 'count from Users1'
   <<"c", "o", "u", "n", "t", " ", "f", "r", "o", "m", " ", "U", "s", "e", "r", "s", "1">>,
   \* 'hello'
   <<"h", "e", "l", "l", "o">>,
   \* 'show\nselect x from t\n'
   <<"s", "h", "o", "w", "\n", "s", "e", "l", "e", "c", "t", " ", "x", " ", "f", "r", "o", "m", " ", "t", "\n">>}

\* the labels an aggregation can give select: missing, empty, of another
\* type, the known ones, one in upper case and one unknown
FallbackSources ==
  {PNone, PStr(""), PInt("5"), PStr("filesystem"), PStr("local file"),
   PStr("repo_chunks"), PStr("postgres"), PStr("Postgres"), PStr("external_web"),
   PStr("none")}

FallbackIntents ==
  {PNone, PInt("5"), PStr("read"), PStr("check_contents"), PStr("summarize"),
   PStr("file_metadata"), PStr("search_file"), PStr("symbol_graph"),
   PStr("schema_view"), PStr("lookup"), PStr("explain"), PStr("modify")}

SelectCalls ==
  {DirectCall("select", text, NoDict, NoDict, DEFAULT_SAFETY, NoDict,
              [final_source |-> s, final_intent |-> i, routing_confidence |-> 300]) :
     text \in Texts, s \in FallbackSources, i \in FallbackIntents}
  \cup
  {DirectCall("select", text, NoDict, NoDict, DEFAULT_SAFETY, NoDict,
              [final_source |-> s, final_intent |-> i, routing_confidence |-> 300]) :
     text \in SqlTexts, s \in {PStr("postgres"), PStr("Postgres")},
     i \in FallbackIntents}

\* the conversations of the manager the call is made on: none yet, or each
\* with a committed turn
DirectStates ==
  {[s \in StoredKeys |-> AbsentState],
   [s \in StoredKeys |->
      [k |-> "set", last_source |-> PStr("filesystem"), last_intent |-> PStr("modify"),
       last_user_query |-> TxtRename, last_query_embedding |-> Vec(650, 760)]]}

InitDirect ==
  /\ routing_state \in DirectStates
  /\ turn = [p \in Procs |-> IdleTurn]
  /\ started = 0
  /\ direct \in AggregatorCalls \cup PlanCalls \cup SelectCalls
  /\ chunker = Idle
  /\ extractor = Idle
  /\ retriever = Idle

\* routing_manager.py lines 32-80
AggregatorCall ==
  /\ direct.pc = "start"
  /\ direct.op = "aggregate"
  /\ \E routing_context \in AggregateOutcomes(direct.source, direct.intent,
                                              direct.safety, direct.self_check) :
       direct' = [direct EXCEPT !.pc = "returned",
                                !.routing_context = routing_context]
  /\ UNCHANGED <<routing_state, turn, started, others>>

\* routing_manager.py lines 317-358
PlanCall ==
  /\ direct.pc = "start"
  /\ direct.op = "plan"
  /\ direct' = [direct EXCEPT !.pc = "returned",
                              !.result = _build_action_plan(direct.text)]
  /\ UNCHANGED <<routing_state, turn, started, others>>

\* routing_manager.py lines 450-452: .lower() on a label that is no string
SelectRaises ==
  /\ direct.pc = "start"
  /\ direct.op = "select"
  /\ FallbackRaises(direct.routing_context)
  /\ direct' = [direct EXCEPT !.pc = "raised"]
  /\ UNCHANGED <<routing_state, turn, started, others>>

\* routing_manager.py lines 450-520
SelectCall ==
  /\ direct.pc = "start"
  /\ direct.op = "select"
  /\ ~FallbackRaises(direct.routing_context)
  /\ \E choice \in {FallbackSelect(direct.text, direct.routing_context)} :
       direct' = [direct EXCEPT
         !.pc = "returned",
         !.result = choice,
         !.query = IF choice.name = PStr("connect_db")
                     THEN FallbackQuery(direct.text) ELSE <<>>]
  /\ UNCHANGED <<routing_state, turn, started, others>>

NextDirect ==
  \/ AggregatorCall
  \/ PlanCall
  \/ SelectRaises
  \/ SelectCall

\* every direct call on every input of the model
SpecDirect == InitDirect /\ [][NextDirect]_vars

----------------------------------------------------------------------------
(* Properties of the direct calls *)

\* the confidence is a number or a string that holds one
Present(d) == d.confidence.k \in {"num", "numstr"}

\* C23: the aggregated confidence is the mean of the source, intent and
\* self-check confidences that are present, with the weights 0.4, 0.4 and
\* 0.2, rounded to 3 decimals and brought into [0, 1]; it is 0.25 when none
\* is present; so it is always in [0, 1]
C23_WeightedMeanOfPresent ==
  (direct.pc = "returned" /\ direct.op = "aggregate") =>
    LET inputs == <<<<direct.source, 4>>, <<direct.intent, 4>>, <<direct.self_check, 2>>>>
        term(i) == IF Present(inputs[i][1])
                     THEN inputs[i][1].confidence.v * inputs[i][2] ELSE 0
        weight(i) == IF Present(inputs[i][1]) THEN inputs[i][2] ELSE 0
        sum == term(1) + term(2) + term(3)
        total == weight(1) + weight(2) + weight(3)
        confidence == direct.routing_context.routing_confidence
    IN /\ confidence \in 0..1000
       /\ total = 0 => confidence = 250
       /\ total # 0 =>
            \E r \in -1000..2000 :
              /\ 2 * (sum - r * total) <= total
              /\ 2 * (r * total - sum) <= total
              /\ confidence = IF r < 0 THEN 0 ELSE IF r > 1000 THEN 1000 ELSE r

\* C23 happens: one confidence is missing, one is above 1 and the mean of
\* the two that are present lies between two thousandths
C23_Witness ==
  /\ direct.pc = "returned" /\ direct.op = "aggregate"
  /\ ~Present(direct.self_check)
  /\ direct.source.confidence = NNum(1500)
  /\ direct.intent.confidence = NNum(301)
  /\ direct.routing_context.routing_confidence = 901

\* the clauses of a text: of its normal form, cut at sentence ends, without
\* the connectives
ClausesOf(text) == _split_action_clauses(_normalize_action_text(text))

\* some clause of the text contains a keyword of the table
SomeClauseHas(text, keywords) ==
  \E n \in 1..Len(ClausesOf(text)) :
    \E k \in 1..Len(keywords) : Contains(keywords[k], ClausesOf(text)[n])

\* C24: the mode of the action plan is read_then_modify when some clause
\* contains a modify keyword, whether or not a read keyword matches too;
\* read_only when none does and some clause contains a read keyword;
\* unknown otherwise; needs_llm_transformation is true exactly for
\* read_then_modify; and this is so whatever the conversations hold
C24_ModifyTakesPrecedence ==
  (direct.pc = "returned" /\ direct.op = "plan") =>
    /\ direct.result.mode =
         IF SomeClauseHas(direct.text, MODIFY_KEYWORDS)
           THEN "read_then_modify"
           ELSE IF SomeClauseHas(direct.text, READ_KEYWORDS)
             THEN "read_only"
             ELSE "unknown"
    /\ direct.result.needs_llm_transformation =
         (direct.result.mode = "read_then_modify")

\* C24 happens: a read keyword in one clause and a modify keyword in
\* another, on a manager that holds committed turns
C24_Witness ==
  /\ direct.pc = "returned" /\ direct.op = "plan"
  /\ routing_state["__default__"].k = "set"
  /\ \E n, m \in 1..Len(ClausesOf(direct.text)) :
       /\ n # m
       /\ \E k \in 1..Len(READ_KEYWORDS) :
            Contains(READ_KEYWORDS[k], ClausesOf(direct.text)[n])
       /\ \E k \in 1..Len(MODIFY_KEYWORDS) :
            Contains(MODIFY_KEYWORDS[k], ClausesOf(direct.text)[m])
  /\ direct.result.mode = "read_then_modify"

\* select returned a call of the tool
Selected(name) ==
  /\ direct.pc = "returned" /\ direct.op = "select"
  /\ direct.result.name = PStr(name)

\* the query has a LIMIT clause: the word limit, in either case, then white
\* space and a number
HasLimitClause(query) ==
  \E i \in 1..Len(query) :
    /\ MatchesAt(<<"l", "i", "m", "i", "t">>, LowerText(query), i - 1)
    /\ i = 1 \/ ~IsWordChar(query[i - 1])
    /\ RunLen(query, i + 5, SpaceChars) >= 1
    /\ RunLen(query, i + 5 + RunLen(query, i + 5, SpaceChars), DigitChars) >= 1

\* C26: every query of a connect_db call of the fallback has a row bound,
\* appended to an extracted SELECT statement that has none, and part of the
\* default query
C26_QueriesAreBounded ==
  Selected("connect_db") => HasLimitClause(direct.query)

\* a label as select compares it: "" for a missing one, in lower case
LabelOf(p) == LowerLabel((IF Truthy(p) THEN p ELSE PStr("")).v)

\* C27: the fallback gives read_file, or search_file when the text has no
\* filename-like token, for filesystem with read, check_contents or
\* summarize; rag_search_files, rag_search_symbols or rag_search_chunks for
\* repo_chunks; inspect_table_columns for postgres with schema_view and
\* connect_db for postgres otherwise; search_web for external_web; and
\* answer_direct for every other pair
C27_FallbackMapping ==
  (direct.pc = "returned" /\ direct.op = "select") =>
    LET final_source == LabelOf(direct.routing_context.final_source)
        final_intent == LabelOf(direct.routing_context.final_intent)
    IN direct.result.name = PStr(
         IF final_source = "filesystem"
              /\ final_intent \in {"read", "check_contents", "summarize"}
           THEN IF _extract_primary_path(direct.text) # <<>>
                  THEN "read_file" ELSE "search_file"
         ELSE IF final_source = "repo_chunks"
           THEN IF final_intent \in {"file_metadata", "search_file"}
                  THEN "rag_search_files"
                  ELSE IF final_intent = "symbol_graph"
                    THEN "rag_search_symbols" ELSE "rag_search_chunks"
         ELSE IF final_source = "postgres"
           THEN IF final_intent = "schema_view"
                  THEN "inspect_table_columns" ELSE "connect_db"
         ELSE IF final_source = "external_web"
           THEN "search_web"
           ELSE "answer_direct")

\* C30: the query of a connect_db call of the fallback begins with SELECT,
\* in either case, and holds no semicolon; and when the text carries no
\* SELECT statement it is SELECT * FROM t LIMIT 25 for an identifier t
C30_OneSelectStatement ==
  Selected("connect_db") =>
    /\ MatchesAt(<<"s", "e", "l", "e", "c", "t">>, LowerText(direct.query), 0)
    /\ ";" \notin Range(direct.query)
    /\ _extract_select_query(direct.text) = <<>> =>
         \E t \in {SubSeq(direct.query, 15, Len(direct.query) - 9)} :
           /\ t # <<>>
           /\ \A n \in 1..Len(t) : IsWordChar(t[n])
           /\ direct.query =
                <<"S", "E", "L", "E", "C", "T", " ", "*", " ", "F", "R", "O", "M", " ">>
                  \o t \o <<" ", "L", "I", "M", "I", "T", " ", "2", "5">>

----------------------------------------------------------------------------
(* A run of turns in one conversation *)

\* the conversation of the run
RunKey == PStr("a")

\* the record a completed turn on TxtDatabase leaves: the turn before the run
DatabaseTurn ==
  [k |-> "set", last_source |-> PStr("postgres"), last_intent |-> PStr("lookup"),
   last_user_query |-> TxtDatabase, last_query_embedding |-> QueryEmbeddings[TxtDatabase]]

\* the conversation before the run: new, or after a turn on TxtDatabase
RunStates == {AbsentState, DatabaseTurn}

\* texts with no explicit source keyword: TxtRename and TxtExplain are
\* similar to TxtDatabase and to TxtKoRename, TxtKoRename is not similar to
\* TxtDatabase, and TxtEmpty has no embedding
RunTexts == {TxtRename, TxtExplain, TxtKoRename, TxtEmpty}

\* no JSON, a reply with labels, and a reply whose labels are all "none"
RunReplies == {<<>>, <<"txt", "{", "ok", "}", "txt">>, <<"txt", "{", "none", "}", "txt">>}

InitRun ==
  /\ routing_state \in
       {[s \in StoredKeys |-> IF s = StateKey(RunKey) THEN state ELSE AbsentState] :
          state \in RunStates}
  /\ turn = [p \in Procs |-> IdleTurn]
  /\ started = 0
  /\ direct = Idle
  /\ chunker = Idle
  /\ extractor = Idle
  /\ retriever = Idle

NextRun == NextOver({RunKey}, RunTexts, {NoDict}, RunReplies, FALSE)

\* MaxTurns sequential turns of one conversation on texts without a source
\* keyword
SpecRun == InitRun /\ [][NextRun]_vars

----------------------------------------------------------------------------
(* Properties of state continuity *)

\* the turn is on a text without an explicit source keyword whose
\* embedding is similar to the one stored by the turn before it
SimilarTurn(t) ==
  /\ t.pc # "idle"
  /\ ~t.foreign
  /\ ~Truthy(ExplicitSignals[t.text].source)
  /\ Similar(t.query_embedding, t.before)

\* C29: a turn of a run on a text without an explicit source keyword that
\* is similar to the text of the turn before it never calls the source
\* classifier, has the final_source of the turn before it and leaves it in
\* the state, so that it is still the final_source of the turn before the
\* run after any number of such turns; and the first turn of a conversation
\* and a turn that finds no stored embedding take no continuity path
C29_RunKeepsSource ==
  \A p \in Procs :
    /\ SimilarTurn(turn[p]) =>
         /\ "source_router" \notin turn[p].calls
         /\ turn[p].source.reason = "state continuity"
         /\ Aggregated(turn[p]) =>
              turn[p].routing_context.final_source = turn[p].before.last_source
         /\ turn[p].pc = "done" =>
              routing_state[StateKey(turn[p].key)].last_source = turn[p].before.last_source
    /\ (turn[p].pc # "idle" /\ ~turn[p].foreign
          /\ \/ turn[p].before.k \in {"absent", "empty"}
             \/ turn[p].before.last_query_embedding = ENone) =>
         /\ turn[p].source.reason # "state continuity"
         /\ turn[p].intent.reason \notin {"postgres continuity", "filesystem continuity"}
         /\ turn[p].safety.reason # "state continuity"

\* C29 happens: the second turn of a run is done on a text that is not
\* similar to the text of the turn before the run, and the source is still
\* that turn's
C29_Witness ==
  \E p \in Procs :
    /\ turn[p].pc = "done"
    /\ started = MaxTurns
    /\ SimilarTurn(turn[p])
    /\ turn[p].text = TxtKoRename
    /\ turn[p].before.last_user_query = TxtRename
    /\ ~Similar(turn[p].query_embedding, DatabaseTurn)
    /\ "source_router" \notin turn[p].calls
    /\ routing_state[StateKey(RunKey)].last_source = DatabaseTurn.last_source

----------------------------------------------------------------------------
(* The Chunker: src/managers/chunker.py *)

(***************************************************************************)
(* Conventions.  A line of a file is a sequence of tokens (a keyword, an   *)
(* identifier, a run of blanks, a run of '#', a quoted literal, ...): the  *)
(* regular expressions of chunk_procedural_code are matched token by       *)
(* token.  A file's text is the sequence of its lines, as splitlines()     *)
(* gives them; the empty text is the empty sequence.  A line that is       *)
(* carried into a chunk keeps the number it has in the file, so that the   *)
(* lines of the chunks can be counted against the lines of the file.       *)
(***************************************************************************)

\* runs of blanks, \s+ in the patterns
WhitespaceToks == {" ", "    "}

\* runs of '#', and those of three and more
HashToks == {"#", "##", "###", "####"}

LongHashToks == {"###", "####"}

\* quoted literals and the text between their quotes
QuotedToks == {"'enc'"}

QuotedInner(tok) == IF tok = "'enc'" THEN "enc" ELSE tok

\* tokens that start with a word character, \w
WordToks ==
  {"import", "from", "with", "for", "if", "def", "class", "async", "pass",
   "in", "os", "x", "i", "xs", "f", "g", "C", "cache", "Data", "Prep",
   "name_scope", "Session", "t1", "TRAIN", "noise_mag", "modeldir",
   "__name__", "1", "tf.", "torch.", "np.", "os.", "tools.", "print("}

\* str.lower() on a token
LowerTok(tok) ==
  CASE tok = "Data" -> "data"
    [] tok = "Prep" -> "prep"
    [] tok = "C" -> "c"
    [] tok = "TRAIN" -> "train"
    [] tok = "Session" -> "session"
    [] OTHER -> tok

\* line.strip(): the line without the blanks at its two ends
LStripToks(s) ==
  IF \A i \in 1..Len(s) : s[i] \in WhitespaceToks
    THEN <<>>
    ELSE SubSeq(s, Min({i \in 1..Len(s) : s[i] \notin WhitespaceToks}), Len(s))

RStripToks(s) ==
  IF \A i \in 1..Len(s) : s[i] \in WhitespaceToks
    THEN <<>>
    ELSE SubSeq(s, 1, Max({i \in 1..Len(s) : s[i] \notin WhitespaceToks}))

StripToks(s) == RStripToks(LStripToks(s))

\* the token of s after the blanks that start at position i; "" at the end
AfterBlanks(s, i) ==
  IF i + RunLen(s, i, WhitespaceToks) <= Len(s)
    THEN s[i + RunLen(s, i, WhitespaceToks)]
    ELSE ""

\* line 79: ^(import|from)\s+\w
ImportLine(s) ==
  /\ Len(s) >= 3
  /\ s[1] \in {"import", "from"}
  /\ RunLen(s, 2, WhitespaceToks) >= 1
  /\ AfterBlanks(s, 2) \in WordToks

\* line 82: ^#{3,}
HashLine(s) == Len(s) >= 1 /\ s[1] \in LongHashToks

\* line 84: re.sub(r"#+\s*", "", stripped).strip()
HeaderText(s) ==
  StripToks(SelectSeq(
    [i \in 1..Len(s) |->
       IF \/ s[i] \in HashToks
          \/ \E h \in 1..(i - 1) :
               /\ s[h] \in HashToks
               /\ \A j \in (h + 1)..i : s[j] \in WhitespaceToks
         THEN "" ELSE s[i]],
    LAMBDA tok : tok # ""))

\* line 85: the line is a divider, not a heading
Decorative(s) ==
  \/ HeaderText(s) = <<>>
  \/ \A i \in 1..Len(s) : s[i] \in HashToks

\* line 92: header_text.lower().replace(" ", "_")
Slug(text) ==
  AsTuple([i \in 1..Len(text) |->
             IF text[i] = " " THEN "_" ELSE LowerTok(text[i])])

\* line 93: ^with\s+(tf\.|torch\.)
WithLine(s) ==
  /\ Len(s) >= 3
  /\ s[1] = "with"
  /\ RunLen(s, 2, WhitespaceToks) >= 1
  /\ AfterBlanks(s, 2) \in {"tf.", "torch."}

\* lines 95-96: the first quoted literal of the line, else "block"
WithName(s) ==
  IF \E i \in 1..Len(s) : s[i] \in QuotedToks
    THEN <<QuotedInner(s[Min({i \in 1..Len(s) : s[i] \in QuotedToks})])>>
    ELSE <<"block">>

\* line 97: ^with\s+tf\.Session or ^for\s+
LoopLine(s) ==
  \/ /\ Len(s) >= 4
     /\ s[1] = "with"
     /\ RunLen(s, 2, WhitespaceToks) >= 1
     /\ AfterBlanks(s, 2) = "tf."
     /\ 2 + RunLen(s, 2, WhitespaceToks) + 1 <= Len(s)
     /\ s[2 + RunLen(s, 2, WhitespaceToks) + 1] = "Session"
  \/ /\ Len(s) >= 2
     /\ s[1] = "for"
     /\ RunLen(s, 2, WhitespaceToks) >= 1

\* line 99: the script-glue prefixes
GlueLine(s) ==
  /\ Len(s) >= 1
  /\ \/ s[1] \in {"print(", "modeldir", "np.", "os.", "tools.", "tf."}
     \/ s[1] \in {"t1", "TRAIN", "noise_mag"} /\ AfterBlanks(s, 2) = "="
     \/ /\ s[1] = "if"
        /\ RunLen(s, 2, WhitespaceToks) >= 1
        /\ AfterBlanks(s, 2) = "__name__"

\* a chunk's content: "\n".join(lines).strip().  The blank lines at the two
\* ends go, the first line loses its leading blanks and the last line its
\* trailing ones; the empty sequence is the empty string.
StripContent(ls) ==
  LET full == {i \in 1..Len(ls) : StripToks(ls[i].text) # <<>>}
  IN IF full = {}
       THEN <<>>
       ELSE AsTuple([i \in 1..(Max(full) - Min(full) + 1) |->
               LET l == ls[Min(full) + i - 1]
                   a == IF i = 1 THEN LStripToks(l.text) ELSE l.text
                   b == IF i = Max(full) - Min(full) + 1 THEN RStripToks(a) ELSE a
               IN [n |-> l.n, text |-> b]])

\* lines 67-71: the chunk flush() appends
SectionChunk(filename, section_name, current) ==
  [semantic_scope |-> <<"section", section_name>>,
   hierarchical_context |-> <<filename, "section", section_name>>,
   content |-> StripContent(current)]

\* lines 65-71: flush()
flush(chunks, section_name, current, filename) ==
  IF current # <<>>
    THEN Append(chunks, SectionChunk(filename, section_name, current))
    ELSE chunks

\* the loop's turn with a boundary that starts the new section empty: the
\* line that opens a section is lost
ScanLine_DropsBoundary(st, line, filename) ==
  LET stripped == StripToks(line.text)
      keep == [st EXCEPT !.current = Append(st.current, line)]
      cut(name) == [chunks |-> flush(st.chunks, st.section_name, st.current, filename),
                    current |-> <<>>,
                    section_name |-> name]
  IN IF stripped = <<>> THEN keep
     ELSE IF ImportLine(stripped)
       THEN IF st.section_name # <<"imports">> THEN cut(<<"imports">>) ELSE keep
     ELSE IF HashLine(stripped)
       THEN IF Decorative(stripped) THEN keep ELSE cut(Slug(HeaderText(stripped)))
     ELSE IF WithLine(stripped) THEN cut(WithName(stripped))
     ELSE IF LoopLine(stripped) THEN cut(<<"training_loop">>)
     ELSE IF GlueLine(stripped)
       THEN IF st.section_name # <<"main_body">> THEN cut(<<"main_body">>) ELSE keep
     ELSE keep

\* lines 73-103: one turn of the loop over the lines, from the state st of
\* chunks, current and section_name
ScanLine(st, line, filename) ==
  LET stripped == StripToks(line.text)
      keep == [st EXCEPT !.current = Append(st.current, line)]
      \* flush(); current = []; section_name = name; current.append(line)
      cut(name) == [chunks |-> flush(st.chunks, st.section_name, st.current, filename),
                    current |-> <<line>>,
                    section_name |-> name]
  IN IF stripped = <<>> THEN keep
     ELSE IF ImportLine(stripped)
       THEN IF st.section_name # <<"imports">> THEN cut(<<"imports">>) ELSE keep
     ELSE IF HashLine(stripped)
       THEN IF Decorative(stripped) THEN keep ELSE cut(Slug(HeaderText(stripped)))
     ELSE IF WithLine(stripped) THEN cut(WithName(stripped))
     ELSE IF LoopLine(stripped) THEN cut(<<"training_loop">>)
     ELSE IF GlueLine(stripped)
       THEN IF st.section_name # <<"main_body">> THEN cut(<<"main_body">>) ELSE keep
     ELSE keep

\* lines 61-105: the loop and the last flush
RECURSIVE ScanLines(_, _, _, _)
ScanLines(st, lines, i, filename) ==
  IF i > Len(lines)
    THEN flush(st.chunks, st.section_name, st.current, filename)
    ELSE ScanLines(ScanLine(st, lines[i], filename), lines, i + 1, filename)

\* lines 60-114: chunk_procedural_code, on the lines of its text
chunk_procedural_code(lines, filename) ==
  LET chunks == ScanLines([chunks |-> <<>>, current |-> <<>>,
                           section_name |-> <<"main_body">>], lines, 1, filename)
  IN IF chunks = <<>>
       THEN <<[semantic_scope |-> <<"section", <<"main_body">>>>,
               hierarchical_context |-> <<filename, "section", <<"main_body">>>>,
               content |-> StripContent(lines)]>>
       ELSE chunks

(***************************************************************************)
(* ast.parse, on the part of Python's grammar the lines of the model       *)
(* spell: statements start at the margin, the lines of a compound          *)
(* statement's body are indented, comment lines and blank lines belong to  *)
(* no statement, a decorator is followed by a definition.                  *)
(***************************************************************************)

CommentLine(text) ==
  StripToks(text) # <<>> /\ StripToks(text)[1] \in HashToks

CodeLine(text) == StripToks(text) # <<>> /\ ~CommentLine(text)

\* the numbers of the lines that hold code, at the margin and indented
MarginLines(lines) ==
  {i \in 1..Len(lines) : CodeLine(lines[i].text) /\ lines[i].text[1] \notin WhitespaceToks}

IndentedLines(lines) ==
  {i \in 1..Len(lines) : CodeLine(lines[i].text) /\ lines[i].text[1] \in WhitespaceToks}

\* a statement that takes an indented block
CompoundLine(text) == StripToks(text)[Len(StripToks(text))] = ":"

DecoratorLine(text) == text[1] = "@"

DefinitionLine(text) ==
  \/ text[1] \in {"def", "class"}
  \/ Len(text) >= 3 /\ text[1] = "async" /\ text[3] = "def"

\* the statement an indented line is in: the last margin line above it
HeadOf(lines, j) == Max({i \in MarginLines(lines) : i < j})

\* the last line of the statement that starts at margin line i
EndOf(lines, i) ==
  Max({i} \cup {j \in IndentedLines(lines) :
                  /\ j > i
                  /\ \A m \in MarginLines(lines) : ~(i < m /\ m < j)})

\* tokens no statement can hold
InvalidToks == {"?"}

\* a null byte; an arithmetic chain longer than the recursion limit allows
NullToks == {"NUL"}

DeepToks == {"DEEP"}

Holds(lines, toks) ==
  \E i \in 1..Len(lines) : \E k \in 1..Len(lines[i].text) : lines[i].text[k] \in toks

\* the text is not a module of the grammar
Malformed(lines) ==
  \/ Holds(lines, InvalidToks)
  \/ \E j \in IndentedLines(lines) :
       \/ \A i \in MarginLines(lines) : i > j
       \/ ~CompoundLine(lines[HeadOf(lines, j)].text)
  \/ \E i \in MarginLines(lines) :
       \/ CompoundLine(lines[i].text) /\ EndOf(lines, i) = i
       \/ /\ DecoratorLine(lines[i].text)
          /\ \/ \A m \in MarginLines(lines) : m <= i
             \/ LET next == Min({m \in MarginLines(lines) : m > i})
                IN ~(DecoratorLine(lines[next].text) \/ DefinitionLine(lines[next].text))

\* tree.body: one node for each statement at the margin, in source order.
\* lineno is the line of def or class, not that of a decorator above it.
NodeAt(lines, i) ==
  LET text == lines[i].text
  IN [kind |-> CASE text[1] = "def" -> "FunctionDef"
                 [] text[1] = "async" -> "AsyncFunctionDef"
                 [] text[1] = "class" -> "ClassDef"
                 [] OTHER -> "Other",
      name |-> IF text[1] = "async" THEN text[5]
               ELSE IF text[1] \in {"def", "class"} THEN text[3] ELSE "",
      lineno |-> i,
      end_lineno |-> EndOf(lines, i)]

Body(lines) ==
  LET starts == Sorted({i \in MarginLines(lines) : ~DecoratorLine(lines[i].text)})
  IN AsTuple([n \in 1..Len(starts) |-> NodeAt(lines, starts[n])])

\* what ast.parse(code) can do: return the tree, or raise.  A text with a
\* null byte raises ValueError on the older interpreters (3.10) and
\* SyntaxError on the newer ones; the conversion of a tree deeper than the
\* recursion limit raises RecursionError.
ParseOutcomes(lines) ==
  IF Holds(lines, NullToks)
    THEN {[raises |-> "ValueError"], [raises |-> "SyntaxError"]}
  ELSE IF Malformed(lines)
    THEN {[raises |-> "SyntaxError"]} \cup
         (IF Holds(lines, DeepToks) THEN {[raises |-> "RecursionError"]} ELSE {})
  ELSE IF Holds(lines, DeepToks)
    THEN {[raises |-> "RecursionError"]}
  ELSE {[raises |-> "", body |-> Body(lines)]}

(***************************************************************************)
(* chunk_structured_code and extract_chunks                                *)
(***************************************************************************)

\* what a call gives its caller: a list of chunks, or an exception
Returned(chunks) == [pc |-> "returned", chunks |-> chunks, error |-> ""]

Raised(error) == [pc |-> "raised", chunks |-> <<>>, error |-> error]

\* lines 26-32 and 36-42: the chunk of a function or of a class
NodeChunk(lines, node, filename) ==
  LET label == IF node.kind = "ClassDef" THEN "class" ELSE "function"
  IN [semantic_scope |-> <<label, <<node.name>>>>,
      hierarchical_context |-> <<filename, label, <<node.name>>>>,
      content |-> StripContent(SubSeq(lines, node.lineno, node.end_lineno))]

\* lines 24-43: the chunks of the definitions, and the lines they cover
DefinitionNodes(body) ==
  SelectSeq(body, LAMBDA node : node.kind \in {"FunctionDef", "AsyncFunctionDef", "ClassDef"})

covered_lines(body) ==
  UNION {node.lineno..node.end_lineno : node \in Range(DefinitionNodes(body))}

\* lines 46-49: the lines outside the definitions that are not blank
main_body_lines(lines, body) ==
  SelectSeq(lines, LAMBDA l : l.n \notin covered_lines(body) /\ StripToks(l.text) # <<>>)

\* chunk_structured_code with a handler that gives up on a syntax error
chunk_structured_code_NoFallback(lines, filename, parsed) ==
  IF parsed.raises = "SyntaxError"
    THEN Returned(<<>>)
  ELSE IF parsed.raises # ""
    THEN Raised(parsed.raises)
  ELSE
    LET nodes == DefinitionNodes(parsed.body)
        chunks == AsTuple([n \in 1..Len(nodes) |-> NodeChunk(lines, nodes[n], filename)])
        rest == main_body_lines(lines, parsed.body)
    IN IF rest # <<>>
         THEN Returned(chunks \o chunk_procedural_code(rest, filename))
         ELSE Returned(chunks)

\* lines 12-55: chunk_structured_code, for one outcome of ast.parse
chunk_structured_code(lines, filename, parsed) ==
  IF parsed.raises = "SyntaxError"
    THEN Returned(chunk_procedural_code(lines, filename))
  ELSE IF parsed.raises # ""
    THEN Raised(parsed.raises)
  ELSE
    LET nodes == DefinitionNodes(parsed.body)
        chunks == AsTuple([n \in 1..Len(nodes) |-> NodeChunk(lines, nodes[n], filename)])
        rest == main_body_lines(lines, parsed.body)
    IN IF rest # <<>>
         THEN Returned(chunks \o chunk_procedural_code(rest, filename))
         ELSE Returned(chunks)

\* lines 127-134: the dispatch of extract_chunks on the suffix
Dispatch(file, parsed) ==
  IF file.suffix = ".py"
    THEN chunk_structured_code(file.lines, file.name, parsed)
    ELSE Returned(chunk_procedural_code(file.lines, file.name))

(***************************************************************************)
(* The files of the model and one call of extract_chunks                   *)
(***************************************************************************)

LineTexts ==
  {<<>>,
   <<"import", " ", "os">>,
   <<"###", " ", "Data", " ", "Prep">>,
   <<"####">>,
   <<"with", " ", "tf.", "name_scope", "(", "'enc'", ")", ":">>,
   <<"for", " ", "i", " ", "in", " ", "xs", ":">>,
   <<"print(", "x", ")">>,
   <<"x", " ", "=", " ", "1">>,
   <<"def", " ", "f", "(", ")", ":">>,
   <<"async", " ", "def", " ", "g", "(", ")", ":">>,
   <<"class", " ", "C", ":">>,
   <<"    ", "pass">>,
   <<"@", "cache">>,
   <<"x", " ", "=", " ", "?">>,
   <<"x", " ", "=", " ", "NUL">>,
   <<"x", " ", "=", " ", "DEEP">>}

\* the longest file of the model, in lines
MaxLines == 3

\* code.splitlines(), each line with its number
Numbered(texts) == AsTuple([i \in 1..Len(texts) |-> [n |-> i, text |-> texts[i]]])

Suffixes == {".py", ".txt"}

Files ==
  {[suffix |-> s, name |-> IF s = ".py" THEN "m.py" ELSE "m.txt", lines |-> Numbered(t)] :
     s \in Suffixes, t \in UNION {[1..n -> LineTexts] : n \in 0..MaxLines}}

\* the router at rest, in the specifications of the other components
RouterIdle ==
  /\ routing_state = [s \in StoredKeys |-> AbsentState]
  /\ turn = [p \in Procs |-> IdleTurn]
  /\ started = 0
  /\ direct = Idle

\* a caller is about to call extract_chunks(file_path)
InitChunker ==
  /\ RouterIdle
  /\ chunker \in {[pc |-> "start", file |-> f, read |-> FALSE, parse |-> "",
                   chunks |-> <<>>, error |-> ""] : f \in Files}
  /\ extractor = Idle
  /\ retriever = Idle

\* lines 120-124: read_text raises, extract_chunks returns []
ReadFails ==
  /\ chunker.pc = "start"
  /\ chunker' = [chunker EXCEPT !.pc = "returned", !.chunks = <<>>]
  /\ UNCHANGED <<routerVars, extractor, retriever>>

\* lines 119-134: the file is read and chunked; parsed is what ast.parse does
\* with its text
ExtractChunks ==
  /\ chunker.pc = "start"
  /\ \E parsed \in ParseOutcomes(chunker.file.lines) :
       \E result \in {Dispatch(chunker.file, parsed)} :
         chunker' = [chunker EXCEPT !.pc = result.pc,
                                    !.read = TRUE,
                                    !.parse = IF chunker.file.suffix = ".py"
                                                THEN parsed.raises ELSE "",
                                    !.chunks = result.chunks,
                                    !.error = result.error]
  /\ UNCHANGED <<routerVars, extractor, retriever>>

NextChunker == ReadFails \/ ExtractChunks

\* extract_chunks on every file of the model
SpecChunker == InitChunker /\ [][NextChunker]_vars

----------------------------------------------------------------------------
(* Properties of the Chunker *)

\* the numbers of the file's lines that are not blank
NonBlank(file) ==
  {i \in 1..Len(file.lines) : StripToks(file.lines[i].text) # <<>>}

\* the places <<chunk, position>> at which line i stands in the chunks
PlacesOf(chunks, i) ==
  {pl \in UNION {{<<c, k>> : k \in 1..Len(chunks[c].content)} : c \in 1..Len(chunks)} :
     chunks[pl[1]].content[pl[2]].n = i}

\* the heuristic chunks' lines, chunk after chunk
RECURSIVE SectionLines(_, _)
SectionLines(chunks, c) ==
  IF c > Len(chunks) THEN <<>>
  ELSE (IF chunks[c].semantic_scope[1] = "section"
          THEN [k \in 1..Len(chunks[c].content) |-> chunks[c].content[k].n]
          ELSE <<>>) \o SectionLines(chunks, c + 1)

Increasing(ns) == \A a, b \in 1..Len(ns) : a < b => ns[a] < ns[b]

\* the file was read and chunk_structured_code or chunk_procedural_code
\* returned its chunks
Chunked == chunker.pc = "returned" /\ chunker.read

\* C11: every non-blank line of the file stands in exactly one chunk, once,
\* with its own text, and the lines of the heuristic chunks are in the
\* order of the file
C11_EveryLineOnce ==
  Chunked =>
    /\ \A i \in NonBlank(chunker.file) :
         /\ Cardinality(PlacesOf(chunker.chunks, i)) = 1
         /\ \A pl \in PlacesOf(chunker.chunks, i) :
              StripToks(chunker.chunks[pl[1]].content[pl[2]].text)
                = StripToks(chunker.file.lines[i].text)
    /\ Increasing(SectionLines(chunker.chunks, 1))

\* C11 happens: a parsed file with a definition and a line outside it, in
\* two chunks
C11_Witness ==
  /\ Chunked
  /\ chunker.file.suffix = ".py"
  /\ chunker.parse = ""
  /\ Len(chunker.chunks) = 2
  /\ chunker.chunks[1].semantic_scope[1] = "function"
  /\ chunker.chunks[2].semantic_scope[1] = "section"
  /\ Cardinality(NonBlank(chunker.file)) = 3

\* the file parses and holds one function definition, with its decorators,
\* and nothing else but blank lines
OnlyOneFunction(file) ==
  /\ file.suffix = ".py"
  /\ ParseOutcomes(file.lines) = {[raises |-> "", body |-> Body(file.lines)]}
  /\ Len(Body(file.lines)) = 1
  /\ Body(file.lines)[1].kind \in {"FunctionDef", "AsyncFunctionDef"}
  /\ \A i \in NonBlank(file) :
       \/ DecoratorLine(file.lines[i].text)
       \/ i \in Body(file.lines)[1].lineno..Body(file.lines)[1].end_lineno

\* C12: a file whose only top-level construct is one function definition
\* gives exactly one chunk, of scope "function: <name>"
C12_OneFunctionOneChunk ==
  (Chunked /\ OnlyOneFunction(chunker.file)) =>
    /\ Len(chunker.chunks) = 1
    /\ chunker.chunks[1].semantic_scope
         = <<"function", <<Body(chunker.file.lines)[1].name>>>>

\* C13: every chunk returned has content that is not empty
C13_ContentNotEmpty ==
  chunker.pc = "returned" =>
    \A c \in 1..Len(chunker.chunks) : chunker.chunks[c].content # <<>>

\* C14: a text that is not empty and fails to parse with a syntax error is
\* segmented whole by the heuristic, and at least one chunk is returned
C14_MalformedStillChunked ==
  (/\ chunker.pc # "start"
   /\ chunker.read
   /\ chunker.parse = "SyntaxError"
   /\ chunker.file.lines # <<>>) =>
    /\ chunker.pc = "returned"
    /\ chunker.chunks = chunk_procedural_code(chunker.file.lines, chunker.file.name)
    /\ Len(chunker.chunks) >= 1

\* C14 happens: a two-line file with a malformed line was chunked
C14_Witness ==
  /\ chunker.pc = "returned"
  /\ chunker.parse = "SyntaxError"
  /\ Len(chunker.file.lines) = 2
  /\ \E i \in 1..2 : chunker.file.lines[i].text = <<"x", " ", "=", " ", "?">>

\* C15: extract_chunks returns a list whatever reading and parsing do, and
\* the empty list when the file cannot be read
C15_ExtractNeverRaises ==
  /\ chunker.pc # "raised"
  /\ (chunker.pc = "returned" /\ ~chunker.read) => chunker.chunks = <<>>

----------------------------------------------------------------------------
(* The Symbol Graph Extractor: src/managers/symbol.py *)

(***************************************************************************)
(* Conventions.  The files are those of the Chunker's grammar, with the    *)
(* statements the static pass looks for: imports, calls in the body of a   *)
(* function, base classes.  A symbol is a sequence of tokens ("a.b" is     *)
(* <<"a", ".", "b">>); an edge is the dictionary of lines 26-32.  The      *)
(* reply of the text-completion collaborator is a sequence of lines of     *)
(* tokens, "|" being one of them.                                          *)
(***************************************************************************)

SymbolLineTexts ==
  {<<"import", " ", "os">>,
   <<"import", " ", "numpy", " ", "as", " ", "np">>,
   <<"from", " ", "a", " ", "import", " ", "b">>,
   <<"from", " ", ".", " ", "import", " ", "b">>,
   <<"def", " ", "f", "(", ")", ":">>,
   <<"    ", "g", "(", ")">>,
   <<"    ", "np.", "dot", "(", ")">>,
   <<"class", " ", "C", "(", "B", ")", ":">>,
   <<"    ", "pass">>,
   <<"g", "(", ")">>,
   <<"x", " ", "=", " ", "?">>,
   <<"x", " ", "=", " ", "DEEP">>}

\* names written with a dot after them: the object of an attribute
DottedToks == {"np.", "tf.", "torch.", "os.", "tools."}

\* the identifiers of the extractor's files
SymbolWordToks == WordToks \cup {"numpy", "np", "as", "a", "b", "B", "dot"}

\* lines 24-43: the target of an import statement, alias.name or
\* f"{module}.{alias.name}".strip(".")
ImportTarget(s) ==
  IF s[1] = "import"
    THEN <<s[3]>>
    ELSE IF s[3] = "." THEN <<s[7]>> ELSE <<s[3], ".", s[7]>>

ImportStatement(s) ==
  /\ Len(s) >= 3
  /\ s[1] \in {"import", "from"}
  /\ s[1] = "from" => Len(s) >= 7 /\ s[5] = "import"

\* lines 50-55: the callee of a statement that is a call, <<>> when the
\* statement is no call of a name or of an attribute
CallTarget(s) ==
  IF Len(s) >= 3 /\ s[1] \in SymbolWordToks \ DottedToks /\ s[2] = "("
    THEN <<s[1]>>
  ELSE IF Len(s) >= 4 /\ s[1] \in DottedToks /\ s[3] = "("
    THEN <<s[2]>>
  ELSE <<>>

\* line 68: the bases of a class statement
ClassBases(s) ==
  IF Len(s) >= 6 /\ s[1] = "class" /\ s[4] = "("
    THEN <<<<s[5]>>>>
    ELSE <<>>

\* what a call of the extractor gives its caller: a list of edges, or an
\* exception
ReturnedLinks(links) == [pc |-> "returned", links |-> links, error |-> ""]

RaisedLinks(error) == [pc |-> "raised", links |-> <<>>, error |-> error]

\* lines 26-32: an edge
Link(repo_id, source, target, relation, path) ==
  [repo_id |-> repo_id, source_symbol |-> source, target_symbol |-> target,
   relation_type |-> relation, file_path |-> path]

\* the lines of the statement of node, after its first
BodyLines(lines, node) ==
  SelectSeq(SubSeq(lines, node.lineno + 1, node.end_lineno),
            LAMBDA l : CodeLine(l.text))

\* lines 23-43: the import edges, in the order of ast.walk
ImportLinks(file, body, repo_id) ==
  LET nodes == SelectSeq(body, LAMBDA node : ImportStatement(file.lines[node.lineno].text))
  IN AsTuple([n \in 1..Len(nodes) |->
       Link(repo_id, <<file.name>>, ImportTarget(file.lines[nodes[n].lineno].text),
            "imports", file.path)])

\* lines 49-63: the call edges of one function
RECURSIVE CallsIn(_, _, _, _, _)
CallsIn(stmts, k, func_name, repo_id, path) ==
  IF k > Len(stmts) THEN <<>>
  ELSE (IF CallTarget(StripToks(stmts[k].text)) # <<>>
          THEN <<Link(repo_id, <<func_name>>, CallTarget(StripToks(stmts[k].text)),
                      "calls", path)>>
          ELSE <<>>) \o CallsIn(stmts, k + 1, func_name, repo_id, path)

\* lines 46-63: the call edges of the functions, function after function
RECURSIVE CallLinks(_, _, _, _)
CallLinks(file, body, n, repo_id) ==
  IF n > Len(body) THEN <<>>
  ELSE (IF body[n].kind \in {"FunctionDef", "AsyncFunctionDef"}
          THEN CallsIn(BodyLines(file.lines, body[n]), 1, body[n].name, repo_id, file.path)
          ELSE <<>>) \o CallLinks(file, body, n + 1, repo_id)

\* lines 66-77: the inheritance edges
RECURSIVE InheritLinks(_, _, _, _)
InheritLinks(file, body, n, repo_id) ==
  IF n > Len(body) THEN <<>>
  ELSE (IF body[n].kind = "ClassDef"
          THEN LET bases == ClassBases(file.lines[body[n].lineno].text)
               IN AsTuple([b \in 1..Len(bases) |->
                    Link(repo_id, <<body[n].name>>, bases[b], "inherits", file.path)])
          ELSE <<>>) \o InheritLinks(file, body, n + 1, repo_id)

\* lines 12-78: extract_links_ast, for one outcome of ast.parse
extract_links_ast(file, repo_id, parsed) ==
  IF parsed.raises = "SyntaxError"
    THEN ReturnedLinks(<<>>)
  ELSE IF parsed.raises # ""
    THEN RaisedLinks(parsed.raises)
  ELSE ReturnedLinks(ImportLinks(file, parsed.body, repo_id)
                       \o CallLinks(file, parsed.body, 1, repo_id)
                       \o InheritLinks(file, parsed.body, 1, repo_id))

\* line 126: import\s+\w+\s+as\s+\w+|torch\.|tf\.|np\.  found in the text
AliasAt(s, i) ==
  /\ s[i] = "import"
  /\ i + 6 <= Len(s)
  /\ s[i + 1] \in WhitespaceToks
  /\ s[i + 2] \in SymbolWordToks
  /\ s[i + 3] \in WhitespaceToks
  /\ s[i + 4] = "as"
  /\ s[i + 5] \in WhitespaceToks
  /\ s[i + 6] \in SymbolWordToks

Dynamic(lines) ==
  \E l \in 1..Len(lines) :
    \E i \in 1..Len(lines[l].text) :
      \/ lines[l].text[i] \in {"torch.", "tf.", "np."}
      \/ AliasAt(lines[l].text, i)

\* lines 90-105: the edges of the lines of a reply
Relations == {"calls", "imports", "inherits"}

ReplyParts(line) ==
  LET parts == Split(line, [i \in 1..Len(line) |-> IF line[i] = "|" THEN 1 ELSE 0])
  IN AsTuple([n \in 1..Len(parts) |-> StripToks(parts[n])])

RECURSIVE ParseReply(_, _, _, _)
ParseReply(res, k, repo_id, path) ==
  IF k > Len(res) THEN <<>>
  ELSE (IF /\ \E i \in 1..Len(res[k]) : res[k][i] = "|"
           /\ Len(ReplyParts(res[k])) = 3
           /\ ReplyParts(res[k])[3] \in {<<r>> : r \in Relations}
          THEN <<Link(repo_id, ReplyParts(res[k])[1], ReplyParts(res[k])[2],
                      ReplyParts(res[k])[3][1], path)>>
          ELSE <<>>) \o ParseReply(res, k + 1, repo_id, path)

\* an augmentation pass that stores the file's name where the static pass
\* stores its path
extract_links_llm_NameAsPath(file, repo_id, reply) ==
  IF reply.kind = "text"
    THEN ParseReply(reply.res, 1, repo_id, file.name)
    ELSE <<>>

\* lines 83-109: extract_links_llm, for what llm.generate does: it returns
\* a text, returns something that is no text, or raises
extract_links_llm(file, repo_id, reply) ==
  IF reply.kind = "text"
    THEN ParseReply(reply.res, 1, repo_id, file.path)
    ELSE <<>>

\* the key of lines 130-133
LinkKey(l) == <<l.source_symbol, l.target_symbol, l.relation_type>>

\* lines 130-134: the dictionary by key and the list of its values: a key
\* stands where it was first met, with the value that was last met
MergeLinks(ls) ==
  LET firsts == Sorted({i \in 1..Len(ls) :
                          \A j \in 1..(i - 1) : LinkKey(ls[j]) # LinkKey(ls[i])})
  IN AsTuple([n \in 1..Len(firsts) |->
       ls[Max({j \in 1..Len(ls) : LinkKey(ls[j]) = LinkKey(ls[firsts[n]])})]])

\* lines 122-136: extract_links after the file was read
LinksOf(file, repo_id, parsed, reply) ==
  LET ast == extract_links_ast(file, repo_id, parsed)
  IN IF ast.pc = "raised" THEN ast
     ELSE IF Dynamic(file.lines)
       THEN ReturnedLinks(MergeLinks(ast.links \o extract_links_llm(file, repo_id, reply)))
       ELSE ast

(***************************************************************************)
(* The files and replies of the model and one call of extract_links        *)
(***************************************************************************)

SymbolFiles ==
  {[name |-> "m.py", path |-> "repo/m.py", lines |-> Numbered(t)] :
     t \in UNION {[1..n -> SymbolLineTexts] : n \in 0..MaxLines}}

RepoIds == {1, 2}

ReplyLines ==
  {<<"f", " ", "|", " ", "g", " ", "|", " ", "calls">>,
   <<"m.py", "|", "os", "|", "imports">>,
   <<"f", "|", "h", "|", "calls">>,
   <<"f", "|", "g">>,
   <<"a", "|", "b", "|", "c", "|", "calls">>,
   <<"f", "|", "g", "|", "uses">>,
   <<"no", " ", "edges">>}

\* the longest reply of the model, in lines
MaxReplyLines == 2

\* what llm.generate can do: return a text, return None, raise
LlmReplies ==
  {[kind |-> "text", res |-> AsTuple(t)] :
     t \in UNION {[1..n -> ReplyLines] : n \in 0..MaxReplyLines}}
  \cup {[kind |-> "none", res |-> <<>>], [kind |-> "raises", res |-> <<>>]}

\* the collaborator was not called
NoReply == [kind |-> "unused", res |-> <<>>]

\* a caller is about to call extract_links(file_path, repo_id)
InitExtractor ==
  /\ RouterIdle
  /\ chunker = Idle
  /\ extractor \in {[pc |-> "start", file |-> f, repo_id |-> r, read |-> FALSE,
                     parse |-> "", reply |-> NoReply, static |-> <<>>,
                     links |-> <<>>, error |-> ""] :
                      f \in SymbolFiles, r \in RepoIds}
  /\ retriever = Idle

\* lines 116-120: read_text raises, extract_links returns []
LinksReadFails ==
  /\ extractor.pc = "start"
  /\ extractor' = [extractor EXCEPT !.pc = "returned", !.links = <<>>]
  /\ UNCHANGED <<routerVars, chunker, retriever>>

\* lines 115-136: the file is read, the static pass runs and, for a text of
\* dynamic style, the augmentation pass; parsed is what ast.parse does and
\* reply what llm.generate does
ExtractLinks ==
  /\ extractor.pc = "start"
  /\ \E parsed \in ParseOutcomes(extractor.file.lines) :
       \E ast \in {extract_links_ast(extractor.file, extractor.repo_id, parsed)} :
         \E reply \in IF ast.pc = "returned" /\ Dynamic(extractor.file.lines)
                        THEN LlmReplies ELSE {NoReply} :
           \E result \in {LinksOf(extractor.file, extractor.repo_id, parsed, reply)} :
             extractor' = [extractor EXCEPT !.pc = result.pc,
                                            !.read = TRUE,
                                            !.parse = parsed.raises,
                                            !.reply = reply,
                                            !.static = ast.links,
                                            !.links = result.links,
                                            !.error = result.error]
  /\ UNCHANGED <<routerVars, chunker, retriever>>

NextExtractor == LinksReadFails \/ ExtractLinks

\* extract_links on every file of the model, with every reply
SpecExtractor == InitExtractor /\ [][NextExtractor]_vars

----------------------------------------------------------------------------
(* Properties of the Symbol Graph Extractor *)

\* C16: no two edges of a returned list have the same key
\* (source_symbol, target_symbol, relation_type)
C16_NoDuplicateKeys ==
  extractor.pc = "returned" =>
    \A i, j \in 1..Len(extractor.links) :
      i # j => LinkKey(extractor.links[i]) # LinkKey(extractor.links[j])

\* the static pass and the augmentation pass both ran and returned
Augmented ==
  /\ extractor.pc = "returned"
  /\ extractor.read
  /\ extractor.reply.kind # "unused"

\* C17: every edge of the static pass is in the result as the static pass
\* made it, whatever the augmentation pass gave
C17_StaticEdgesKept ==
  (extractor.pc = "returned" /\ extractor.read) =>
    \A i \in 1..Len(extractor.static) :
      \E j \in 1..Len(extractor.links) : extractor.links[j] = extractor.static[i]

\* C17 happens: the reply named an edge of the static pass and a new one
C17_Witness ==
  /\ Augmented
  /\ extractor.reply.kind = "text"
  /\ \E i \in 1..Len(extractor.static) :
       \E k \in 1..Len(extractor.reply.res) :
         /\ Len(ReplyParts(extractor.reply.res[k])) = 3
         /\ ReplyParts(extractor.reply.res[k])[1] = extractor.static[i].source_symbol
         /\ ReplyParts(extractor.reply.res[k])[2] = extractor.static[i].target_symbol
         /\ <<extractor.static[i].relation_type>> = ReplyParts(extractor.reply.res[k])[3]
  /\ Len(extractor.links) > Len(extractor.static)

\* C18: extract_links does not raise; it returns the empty list for a file
\* that cannot be read and for one that cannot be parsed; and when the
\* augmentation call fails its edges are those of the static pass
C18_DegradesToStatic ==
  /\ extractor.pc # "raised"
  /\ (extractor.pc = "returned" /\ ~extractor.read) => extractor.links = <<>>
  /\ (extractor.pc = "returned" /\ extractor.read /\ extractor.parse = "SyntaxError") =>
       extractor.links = <<>>
  /\ (Augmented /\ extractor.reply.kind \in {"none", "raises"}) =>
       Range(extractor.links) = Range(extractor.static)

----------------------------------------------------------------------------
(* The Vector Retriever: src/managers/rag_query.py *)

(***************************************************************************)
(* Conventions.  A table of the store is the sequence of its rows and the  *)
(* id of a row is its place.  A row of repo_chunks or files_meta carries   *)
(* its repo_id and its embedding: NULL, or a vector, given by the value    *)
(* of  embedding <=> %s  for the query vector of the call (a distance in   *)
(* whole units).  A row of symbol_links carries its repo_id, its two       *)
(* symbols as character sequences and created_at as a number.  Rows that   *)
(* ORDER BY leaves equal come in an order the store chooses: ties is that  *)
(* choice, a ranking of the rows.                                          *)
(***************************************************************************)

\* lines 51 and 178: the default of top_k
DefaultTopK == 5

\* lines 140 and 178: the largest LIMIT
MaxTopK == 50

\* an optional argument: not passed (or None), or an integer
Absent == [k |-> "none", v |-> 0]

Given(v) == [k |-> "int", v |-> v]

\* lines 140 and 178: max(1, min(int(top_k or 5), 50))
EffectiveTopK(top_k) ==
  LET v == IF top_k.k = "none" \/ top_k.v = 0 THEN DefaultTopK ELSE top_k.v
  IN Max({1, Min({v, MaxTopK})})

\* the embedding column
Null == [k |-> "null", distance |-> 0]

At(d) == [k |-> "vec", distance |-> d]

\* ORDER BY key LIMIT limit over the rows at the places cands: the places
\* by increasing key, rows of equal key as ties ranks them
OrderLimit(cands, key, ties, limit) ==
  LET rank == [i \in cands |-> key[i] * (Cardinality(DOMAIN ties) + 1) + ties[i]]
      sorted == Sorted({rank[i] : i \in cands})
      taken == SubSeq(sorted, 1, Min({limit, Len(sorted)}))
  IN AsTuple([m \in 1..Len(taken) |-> CHOOSE i \in cands : rank[i] = taken[m]])

\* lines 58-86 and 101-128: WHERE embedding IS NOT NULL [AND repo_id = %s]
\* ORDER BY embedding <=> %s LIMIT %s, and the results built from the rows
NearestRows(table, rows, top_k, repo_id, ties) ==
  LET cands == {i \in 1..Len(rows) :
                  /\ rows[i].embedding.k = "vec"
                  /\ repo_id.k = "none" \/ rows[i].repo_id = repo_id.v}
      key == [i \in 1..Len(rows) |-> rows[i].embedding.distance]
      order == OrderLimit(cands, key, ties, top_k)
  IN AsTuple([m \in 1..Len(order) |->
       [table |-> table, id |-> order[m], repo_id |-> rows[order[m]].repo_id,
        score |-> key[order[m]]]])

\* line 178, as _prepare_query returns it to the two vector searches
_prepare_query(top_k) == EffectiveTopK(top_k)

\* lines 47-88
search_chunks(rows, top_k, repo_id, ties) ==
  NearestRows("repo_chunks", rows, _prepare_query(top_k), repo_id, ties)

\* lines 90-130
search_files(rows, top_k, repo_id, ties) ==
  NearestRows("files_meta", rows, _prepare_query(top_k), repo_id, ties)

\* text ILIKE pattern: % is any run of characters, _ any one character,
\* every other character itself in either case
RECURSIVE LikeFrom(_, _, _, _)
LikeFrom(pattern, i, text, j) ==
  IF i > Len(pattern) THEN j > Len(text)
  ELSE IF pattern[i] = "%"
    THEN \E j2 \in j..(Len(text) + 1) : LikeFrom(pattern, i + 1, text, j2)
  ELSE /\ j <= Len(text)
       /\ pattern[i] = "_" \/ LowerChar(pattern[i]) = LowerChar(text[j])
       /\ LikeFrom(pattern, i + 1, text, j + 1)

ILike(text, pattern) == LikeFrom(pattern, 1, text, 1)

\* the newest created_at of the model
MaxCreated == 2

\* lines 132-173: in the WHERE clause AND binds before OR
search_symbols(rows, query_text, top_k, repo_id, ties) ==
  LET term == Strip(query_text)
      limit == EffectiveTopK(top_k)
      pattern == <<"%">> \o term \o <<"%">>
      cands == {i \in 1..Len(rows) :
                  IF repo_id.k = "none"
                    THEN \/ ILike(rows[i].source_symbol, pattern)
                         \/ ILike(rows[i].target_symbol, pattern)
                    ELSE \/ ILike(rows[i].source_symbol, pattern)
                         \/ /\ ILike(rows[i].target_symbol, pattern)
                            /\ rows[i].repo_id = repo_id.v}
      key == [i \in 1..Len(rows) |-> MaxCreated - rows[i].created_at]
      order == OrderLimit(cands, key, ties, limit)
  IN AsTuple([m \in 1..Len(order) |->
       [table |-> "symbol_links", id |-> order[m], repo_id |-> rows[order[m]].repo_id,
        semantic_scope |-> rows[order[m]].source_symbol,
        hierarchical_context |-> rows[order[m]].target_symbol,
        score |-> 0]])

(***************************************************************************)
(* The stores and calls of the model and one call of a search              *)
(***************************************************************************)

\* the largest distance of a row of the small tables
MaxDistance == 1

\* the longest of the small tables of repo_chunks and files_meta
MaxRows == 3

\* the longest table of symbol_links
MaxSymbolRows == 2

\* the length of the large table: more rows than the largest LIMIT
LargeRows == 60

EmbeddedRows ==
  {[repo_id |-> r, embedding |-> e] :
     r \in RepoIds, e \in {Null} \cup {At(d) : d \in 0..MaxDistance}}

\* a table of LargeRows rows of two repositories, some without an
\* embedding, no two at the same distance
LargeTable ==
  AsTuple([i \in 1..LargeRows |->
    [repo_id |-> 1 + (i % 2),
     embedding |-> IF i % 7 = 0 THEN Null ELSE At(LargeRows - i)]])

EmbeddedTables ==
  {AsTuple(t) : t \in UNION {[1..n -> EmbeddedRows] : n \in 0..MaxRows}}
  \cup {LargeTable}

Symbols == {<<"f", "o", "o">>, <<"B", "a", "r">>}

SymbolRows ==
  {[repo_id |-> r, source_symbol |-> s, target_symbol |-> t, created_at |-> c] :
     r \in RepoIds, s \in Symbols, t \in Symbols, c \in 1..MaxCreated}

SymbolTables ==
  {AsTuple(t) : t \in UNION {[1..n -> SymbolRows] : n \in 0..MaxSymbolRows}}

QueryTexts == {<<>>, <<" ", "f", "o">>, <<"B", "A">>, <<"_", "a", "r">>}

TopKs == {Absent} \cup {Given(v) : v \in {-1, 0, 1, 2, 5, 50, 51}}

RepoArgs == {Absent} \cup {Given(r) : r \in RepoIds}

\* the orders the store can give rows of equal key; the rows of the large
\* table have no equal keys
TieBreaks(rows) ==
  IF Len(rows) <= MaxRows
    THEN Permutations(1..Len(rows))
    ELSE {[i \in 1..Len(rows) |-> i]}

\* a call about to be made on the store rows
Call(op, rows, query_text, top_k, repo_id) ==
  [pc |-> "start", op |-> op, rows |-> rows, query_text |-> query_text,
   top_k |-> top_k, repo_id |-> repo_id, conn |-> "none", limit |-> 0,
   results |-> <<>>, error |-> ""]

InitRetriever ==
  /\ RouterIdle
  /\ chunker = Idle
  /\ extractor = Idle
  /\ retriever \in
       {Call(op, rows, <<>>, k, r) :
          op \in {"chunks", "files"}, rows \in EmbeddedTables, k \in TopKs, r \in RepoArgs}
       \cup {Call("symbols", rows, q, k, r) :
               rows \in SymbolTables, q \in QueryTexts, k \in TopKs, r \in RepoArgs}

\* line 176: embed_text raises; no connection was opened
EmbedFails ==
  /\ retriever.pc = "start"
  /\ retriever.op \in {"chunks", "files"}
  /\ retriever' = [retriever EXCEPT !.pc = "raised", !.error = "embed"]
  /\ UNCHANGED <<routerVars, chunker, extractor>>

\* lines 55, 98, 141: get_connection raises
ConnectFails ==
  /\ retriever.pc = "start"
  /\ retriever' = [retriever EXCEPT !.pc = "raised", !.error = "connect"]
  /\ UNCHANGED <<routerVars, chunker, extractor>>

\* a search that turns a failure of the store into an empty list
QueryFails_ReturnsEmpty ==
  /\ retriever.pc = "start"
  /\ retriever' = [retriever EXCEPT !.pc = "returned", !.error = "query",
                                    !.conn = "closed"]
  /\ UNCHANGED <<routerVars, chunker, extractor>>

\* lines 56-88, 99-130, 142-173: a call on the open connection raises and
\* finally closes it
QueryFails ==
  /\ retriever.pc = "start"
  /\ retriever' = [retriever EXCEPT !.pc = "raised", !.error = "query",
                                    !.conn = "closed"]
  /\ UNCHANGED <<routerVars, chunker, extractor>>

\* lines 47-88
SearchChunks ==
  /\ retriever.pc = "start"
  /\ retriever.op = "chunks"
  /\ \E ties \in TieBreaks(retriever.rows) :
       retriever' = [retriever EXCEPT
         !.pc = "returned", !.conn = "closed",
         !.limit = _prepare_query(retriever.top_k),
         !.results = search_chunks(retriever.rows, retriever.top_k,
                                   retriever.repo_id, ties)]
  /\ UNCHANGED <<routerVars, chunker, extractor>>

\* lines 90-130
SearchFiles ==
  /\ retriever.pc = "start"
  /\ retriever.op = "files"
  /\ \E ties \in TieBreaks(retriever.rows) :
       retriever' = [retriever EXCEPT
         !.pc = "returned", !.conn = "closed",
         !.limit = _prepare_query(retriever.top_k),
         !.results = search_files(retriever.rows, retriever.top_k,
                                  retriever.repo_id, ties)]
  /\ UNCHANGED <<routerVars, chunker, extractor>>

\* lines 132-173
SearchSymbols ==
  /\ retriever.pc = "start"
  /\ retriever.op = "symbols"
  /\ \E ties \in TieBreaks(retriever.rows) :
       retriever' = [retriever EXCEPT
         !.pc = "returned", !.conn = "closed",
         !.limit = EffectiveTopK(retriever.top_k),
         !.results = search_symbols(retriever.rows, retriever.query_text,
                                    retriever.top_k, retriever.repo_id, ties)]
  /\ UNCHANGED <<routerVars, chunker, extractor>>

NextRetriever ==
  \/ EmbedFails
  \/ ConnectFails
  \/ QueryFails
  \/ SearchChunks
  \/ SearchFiles
  \/ SearchSymbols

\* every search on every store of the model
SpecRetriever == InitRetriever /\ [][NextRetriever]_vars

----------------------------------------------------------------------------
(* Properties of the Vector Retriever *)

\* v brought into lo..hi
Clamp(v, lo, hi) == IF v < lo THEN lo ELSE IF v > hi THEN hi ELSE v

\* the rows with an embedding that pass the repository filter of the call
IndexedItems ==
  {i \in 1..Len(retriever.rows) :
     /\ retriever.rows[i].embedding.k = "vec"
     /\ retriever.repo_id.k = "none"
          \/ retriever.rows[i].repo_id = retriever.repo_id.v}

\* C19: a vector search is made with the limit clamp(k, 1, 50), 5 when k
\* is not given, and returns at most min(limit, indexed items that pass the
\* repository filter) results, in ascending order of score
C19_AtMostKNearest ==
  (retriever.pc = "returned" /\ retriever.op \in {"chunks", "files"}) =>
    LET limit == IF retriever.top_k.k = "none"
                   THEN DefaultTopK
                   ELSE Clamp(retriever.top_k.v, 1, MaxTopK)
    IN /\ retriever.limit = limit
       /\ Len(retriever.results) <= Min({limit, Cardinality(IndexedItems)})
       /\ \A m \in 1..(Len(retriever.results) - 1) :
            retriever.results[m].score <= retriever.results[m + 1].score

\* C20: every result of a symbol search that was given a repository id
\* is of that repository
C20_SymbolsOfTheRepository ==
  (retriever.pc = "returned" /\ retriever.op = "symbols"
     /\ retriever.repo_id.k = "int") =>
    \A m \in 1..Len(retriever.results) :
      retriever.results[m].repo_id = retriever.repo_id.v

\* the rows of symbol_links that have the term of the call in one of their
\* symbols and are of the repository of the call
MatchingSymbols ==
  {i \in 1..Len(retriever.rows) :
     /\ retriever.repo_id.k = "none"
          \/ retriever.rows[i].repo_id = retriever.repo_id.v
     /\ \E s \in {retriever.rows[i].source_symbol, retriever.rows[i].target_symbol} :
          ILike(s, <<"%">> \o Strip(retriever.query_text) \o <<"%">>)}

\* C21: a search that failed to embed, to connect or to query has raised and
\* returned no list; a search that returned the empty list found no row to
\* return; and no search leaves a connection open
C21_StoreFailuresAreRaised ==
  /\ retriever.error # "" => retriever.pc = "raised"
  /\ retriever.pc = "returned" => retriever.conn = "closed"
  /\ retriever.pc = "raised" =>
       retriever.conn = (IF retriever.error = "query" THEN "closed" ELSE "none")
  /\ (retriever.pc = "returned" /\ retriever.results = <<>>) =>
       IF retriever.op = "symbols"
         THEN MatchingSymbols = {}
         ELSE IndexedItems = {}

\* C21 happens: a query on a table with rows failed on the open connection
C21_Witness ==
  /\ retriever.pc = "raised"
  /\ retriever.error = "query"
  /\ retriever.conn = "closed"
  /\ retriever.rows # <<>>

====
